---- MODULE Spec2Model ----
(***************************************************************************)
(* Model of switchly's account-state Manager (internal/core/manager.go):   *)
(* the persisted registry (state store), the secret store, and the         *)
(* Manager operations AddAccount, SetActiveAccount, SetStrategy,           *)
(* UpdateQuota and HandleQuotaError with their storage failures.           *)
(*                                                                         *)
(* Time is counted in seconds; the zero time.Time is 0.                    *)
(*                                                                         *)
(* Spec runs the Manager operations one after another, one operation one   *)
(* action.  SpecSync does the same for the quota sync of one account and   *)
(* of all accounts.  SpecConc runs two requests at the same time, each     *)
(* operation split into the steps Manager.mu does or does not hold         *)
(* together: Status and ListAccounts take no lock.                         *)
(*                                                                         *)
(* The components around the Manager have a specification each: SpecOAuth  *)
(* the OAuth session engine (oauth.Service) with two callbacks in flight,  *)
(* SpecImport the import of the local codex login, SpecDaemon the daemon's *)
(* process controller, SpecStore the file secret store of the non-Windows  *)
(* build, and SpecShould the predicate shouldSwitch called on its own.     *)
(*                                                                         *)
(* SpecOrder, SpecQuota and SpecFresh call orderedCandidates, the quota    *)
(* fetcher and merge, and ensureFreshToken on their own.  SpecMutators     *)
(* runs two mutating Manager operations at the same time, SpecImportRace   *)
(* the local import next to another request, and SpecRotate reports        *)
(* switch-worthy errors for ever to a registry of ready accounts.  SpecUi  *)
(* is the quota auto-refresh hook of the UI, with time in minutes.         *)
(***************************************************************************)
EXTENDS Integers, Sequences, FiniteSets, TLC

VARIABLES
    state,        \* the registry held by the state store (model.AppState)
    secretStore,  \* the secret store: account id -> model.AuthSecrets
    now,          \* the wall clock, in seconds
    pre,          \* registry and secret store when the last operation began
    ret,          \* what the last operation returned and did
    nops,         \* number of Manager operations performed
    faults,       \* number of storage and network failures injected
    mu,           \* Manager.mu: the caller holding it, "" when free
    calls,        \* the requests in flight, one per handler goroutine
    hist,         \* the registries saved so far by requests in flight
    sessions,     \* oauth.Service.sessions: state nonce -> session
    callbacks,    \* the OAuth callbacks being handled, one per goroutine
    polled,       \* what the oauth Status calls returned
    http,         \* the last codex import request and its response
    daemon,       \* the daemonController, its callers and its HTTP servers
    fileStore,    \* the secret files on disk and the last FileStore call
    probe,        \* a function called on its own: its arguments and its result
    ui            \* the useQuotaSync hook of the UI: its refs and its timer

vars == <<state, secretStore, now, pre, ret, nops, faults, mu, calls, hist,
          sessions, callbacks, polled, http, daemon, fileStore, probe, ui>>

\* The variables of the requests in flight.
inflight == <<mu, calls, hist>>

\* The variables of the OAuth engine and of the components around the
\* Manager.
oauth == <<sessions, callbacks, polled>>
edge == <<http, daemon, fileStore, probe, ui>>
outside == <<oauth, edge>>

----------------------------------------------------------------------------
\* Bounds of the exploration.
MaxNow == 2
MaxOps == 3
MaxFaults == 1
MaxSessions == 1
MaxPolls == 2
MaxUiMinutes == 6
MaxFailures == 5

\* Program constants: the freshness margin of ensureFreshToken in seconds,
\* the access-token lifetime AddAccount assumes in minutes, and the lifetime
\* refreshCodexAccessToken assumes in seconds.
FreshSkew == 30
DefaultAccessTTLMinutes == 50
DefaultExpiresIn == 3600

\* The clock advances in steps of the freshness margin, MaxNow steps at most.
ClockStep == FreshSkew

AccountIDs == {"A", "B", "C"}
IdOrder == <<"A", "B", "C", "D">>

\* Byte-wise string order of the account ids (Go's < on strings).
IdRank(id) == CHOOSE i \in 1..Len(IdOrder) : IdOrder[i] = id

StrLess(a, b) == IdRank(a) < IdRank(b)

\* strings.TrimSpace(s) == "" for the strings the inputs are drawn from.
IsBlank(s) == s \in {"", " "}

\* strings.ToLower(strings.TrimSpace(s)) for the provider inputs.
NormalizeProvider(s) ==
    CASE s = " Codex " -> "codex"
      [] s = "CODEX" -> "codex"
      [] s = " " -> ""
      [] OTHER -> s

\* strings.ToLower(s) for the provider strings.
LowerProvider(s) ==
    CASE s = " Codex " -> " codex "
      [] s = "CODEX" -> "codex"
      [] OTHER -> s

----------------------------------------------------------------------------
\* model.QuotaSnapshot{} and model.Account fields.
ZeroQuota == [session |-> 0, weekly |-> 0, limitReached |-> FALSE, lastUpdated |-> 0]

\* model.DefaultState()
DefaultState == [active |-> "", strategy |-> "round-robin", accounts |-> <<>>]

EmptySecrets == <<>>

HasAccount(st, id) == id \in DOMAIN st.accounts

\* m[k] = v for a map held as a function over its key set.
MapPut(m, k, v) == [x \in (DOMAIN m) \cup {k} |-> IF x = k THEN v ELSE m[x]]

MapDelete(m, k) == [x \in (DOMAIN m) \ {k} |-> m[x]]

\* What an operation returned (err, and the SwitchDecision fields switched,
\* from, to, reason), its arguments (id, statusCode, message), and what it
\* did: the numbers of Put, Delete, Save and token refresh calls, whether a
\* Save succeeded, which of its storage calls failed, and the accounts handed
\* to the credential applier.
\* valid: the arguments passed the operation's checks.  applyOk: the
\* credential file could be written during the call.  env, at: how the
\* secret store and the token endpoint answered for each candidate of a
\* scan or a quota sync, and the time of it.  fetches, resps: the calls of
\* the quota fetcher and the usage endpoint's answers.  results, total,
\* succeeded, failedCount: what a sync of all accounts reports.
NoRet == [op |-> "none", id |-> "", err |-> "", switched |-> FALSE,
          from |-> "", to |-> "", reason |-> "",
          statusCode |-> 0, message |-> <<>>,
          puts |-> 0, deletes |-> 0, saves |-> 0, savedOk |-> FALSE,
          refreshes |-> 0, failed |-> {}, applied |-> <<>>, applyOk |-> TRUE,
          valid |-> FALSE, env |-> <<>>, at |-> 0,
          fetches |-> 0, resps |-> <<>>, results |-> <<>>,
          total |-> 0, succeeded |-> 0, failedCount |-> 0]

----------------------------------------------------------------------------
\* The secret store (secrets.Store): a failed call leaves the store as it was.
SecretPut(store, id, s, ok) == IF ok THEN MapPut(store, id, s) ELSE store

SecretDelete(store, id, ok) == IF ok THEN MapDelete(store, id) ELSE store

SecretHas(store, id) == id \in DOMAIN store

\* The state store: Save replaces the registry, a failed Save leaves it.
StoreSave(old, new, ok) == IF ok THEN new ELSE old

----------------------------------------------------------------------------
\* Registries a state file can hold when the daemon starts, with their
\* secrets.  Seed 1: account A active and ready, account B disabled by the
\* user.  Seed 2: A active, B marked need_reauth with a stale token that can
\* be refreshed, C ready with quota used and a token about to go stale.
SeedAccount(status, exp, lastError, session) ==
    [provider |-> "codex", status |-> status, lastAppliedAt |-> 0,
     accessExpiresAt |-> exp, refreshExpiresAt |-> 0, lastRefreshAt |-> 0,
     lastError |-> lastError,
     quota |-> [ZeroQuota EXCEPT !.session = session],
     createdAt |-> ClockStep, updatedAt |-> ClockStep]

SeedSecret(exp) ==
    [accessToken |-> "at0", refreshToken |-> "rt0", idToken |-> "",
     accessExpiresAt |-> exp, refreshExpiresAt |-> 0]

SeedState1 ==
    [active |-> "A", strategy |-> "round-robin",
     accounts |-> [id \in {"A", "B"} |->
                     IF id = "A" THEN SeedAccount("ready", 0, "", 0)
                                 ELSE SeedAccount("disabled", 0, "", 0)]]

SeedSecrets1 == [id \in {"A", "B"} |-> SeedSecret(0)]

SeedState2 ==
    [active |-> "A", strategy |-> "fill-first",
     accounts |-> [id \in {"A", "B", "C"} |->
                     CASE id = "A" -> SeedAccount("ready", 0, "", 0)
                       [] id = "B" -> SeedAccount("need_reauth", ClockStep, "secret read failed", 60)
                       [] id = "C" -> SeedAccount("ready", 3 * ClockStep, "", 50)]]

SeedSecrets2 ==
    [id \in {"A", "B", "C"} |->
        CASE id = "A" -> SeedSecret(0)
          [] id = "B" -> SeedSecret(ClockStep)
          [] id = "C" -> SeedSecret(3 * ClockStep)]

\* The handler goroutines serving requests at the same time, and a request
\* not yet made.  pc is the request's position; cancelled tells whether its
\* HTTP request has been cancelled; loaded and next are the registry its
\* operation loaded and the one it is about to save; secrets and at are the
\* secret store and the time it worked with; out is what it returns.
Callers == {"h1", "h2"}

NoOut == [err |-> "", switched |-> FALSE, from |-> "", to |-> "", reason |-> "",
          active |-> "", strategy |-> "", accounts |-> <<>>]

IdleCall == [pc |-> "idle", op |-> "", arg |-> "", cancelled |-> FALSE,
             cancelledAtScan |-> FALSE, calledAt |-> 0,
             loaded |-> DefaultState, loadedAt |-> 0,
             secrets |-> EmptySecrets, next |-> DefaultState, saves |-> FALSE,
             savedAs |-> 0, at |-> 0, list |-> <<>>, out |-> NoOut]

\* The session table of a new oauth.Service, a callback goroutine that has
\* no request yet, and no Status call made yet.  A callback's pc
\* is its position in HandleCallback; state, code and error are its query;
\* tokens is what the token exchange returned; account and addErr are the
\* id AddAccount was called with and the error it returned; msg is the
\* message it fails the session with; found is the session it overwrote and
\* wrote the session it left; ok and page are the HTML page it wrote.
NoSessions == <<>>

NoSession == [provider |-> "", status |-> "", accountID |-> "", error |-> "",
              expiresAt |-> 0]

IdleCallback == [pc |-> "idle", state |-> "", code |-> "", error |-> "",
                 tokens |-> EmptySecrets, account |-> "",
                 added |-> FALSE, addErr |-> "", stored |-> FALSE, msg |-> "",
                 found |-> NoSession, wrote |-> NoSession, finishedAt |-> 0,
                 ok |-> FALSE, page |-> ""]

\* count is the number of Status calls made; seen is, per state nonce, the status the last Status call for it
\* returned ("" before the first).
NoPoll == [count |-> 0, state |-> "", err |-> "", snapshot |-> NoSession,
           seen |-> [n \in {"s1", "s2", "s3"} |-> ""]]

\* No codex import request made yet.  method, body and file are the request
\* and the codex auth file it found; candidate is the id of the local
\* account and existed whether the registry held it before the call; adds
\* counts the calls of AddAccount and addErr is what AddAccount returned;
\* status, action and error are the response.
NoRequest == [method |-> "", body |-> "", candidate |-> "", existed |-> FALSE,
              adds |-> 0, addErr |-> "", status |-> 0, action |-> "", error |-> ""]

\* The secrets directory after MkdirAll: no file, no id ever stored, no call
\* made.  files maps a path under baseDir to the bytes of the regular file
\* there; held and last remember, for the properties, what each id was last
\* given and what the last call met and answered.
NoFiles ==
    [files |-> <<>>, held |-> <<>>,
     last |-> [op |-> "", accountID |-> <<>>, held |-> "", secrets |-> <<>>,
               before |-> <<>>, err |-> "", out |-> <<>>]]

\* No direct call of shouldSwitch made yet.  hit tells whether the message
\* was built around a whole pattern, shape how.
NoProbe == [done |-> FALSE, statusCode |-> 0, message |-> <<>>, shape |-> "",
            hit |-> FALSE, result |-> FALSE]

\* The hook useQuotaSync when it is mounted.  clock is Date.now() in minutes
\* (60_000 ms); cadence and nextFire are the refresh cadence and the time
\* the interval timer fires next (0: no timer); inFlight is the sync
\* running ("" for none; quotaSyncInFlightRef); failureCount and
\* backoffUntil are quotaSyncFailureCountRef and quotaSyncBackoffUntilRef;
\* unsuccessful counts the syncs in a row that did not succeed for all
\* accounts; last is the last thing the hook did: a sync that finished
\* with its outcome, or a firing of the timer and whether it started a sync.
NoUi == [clock |-> 0, cadence |-> "10min", nextFire |-> 10, inFlight |-> "",
         failureCount |-> 0, backoffUntil |-> 0, unsuccessful |-> 0,
         last |-> [kind |-> "none", outcome |-> "", started |-> FALSE]]

\* A handler goroutine that has made no call of the controller yet.  op and
\* startCmd are its call; cmd is the command line it started a process
\* from and spawned whether it started one; entered tells whether it called
\* Shutdown; err is what the call returned once returned is true.
IdleDaemonCall == [pc |-> "idle", op |-> "", startCmd |-> "", cmd |-> "",
                   spawned |-> FALSE, entered |-> FALSE, returned |-> FALSE,
                   err |-> ""]

\* The controller before newDaemonController has run.  restartCmd and exe
\* are what it was built from; goroutines counts the delayed stops started
\* and sleeping those that have not yet stopped the servers; stopCalls
\* counts, per HTTP server, the calls of its Shutdown; shutdowns counts the
\* calls of daemonController.Shutdown that have returned.
NoDaemon == [built |-> FALSE, restartCmd |-> "", exe |-> [err |-> TRUE, goRun |-> FALSE, path |-> <<>>],
             defaultRestartCmd |-> "", shuttingDown |-> FALSE,
             goroutines |-> 0, sleeping |-> 0,
             stopCalls |-> [srv \in {"api", "callback"} |-> 0],
             shutdowns |-> 0,
             calls |-> [c \in Callers |-> IdleDaemonCall]]

Init ==
    /\ \/ state = DefaultState /\ secretStore = EmptySecrets
       \/ state = SeedState1 /\ secretStore = SeedSecrets1
       \/ state = SeedState2 /\ secretStore = SeedSecrets2
    /\ now = ClockStep
    /\ pre = [state |-> state, secrets |-> secretStore]
    /\ ret = NoRet
    /\ nops = 0
    /\ faults = 0
    /\ mu = ""
    /\ calls = [c \in Callers |-> IdleCall]
    /\ hist = <<state>>
    /\ sessions = NoSessions
    /\ callbacks = [c \in Callers |-> IdleCallback]
    /\ polled = NoPoll
    /\ http = NoRequest
    /\ daemon = NoDaemon
    /\ fileStore = NoFiles
    /\ probe = NoProbe
    /\ ui = NoUi

----------------------------------------------------------------------------
\* Inputs of AddAccount (core.AddAccountInput): a token that stays fresh
\* (no expiry given), one that goes stale and can be refreshed, and one of
\* another provider that goes stale; and the three inputs validation rejects.
AddInputs ==
    { [id |-> "A", provider |-> "codex",
       secrets |-> [accessToken |-> "at1", refreshToken |-> "rt1", idToken |-> "",
                    accessExpiresAt |-> 0, refreshExpiresAt |-> 0]],
      [id |-> "B", provider |-> " Codex ",
       secrets |-> [accessToken |-> "at1", refreshToken |-> "rt1", idToken |-> "id1",
                    accessExpiresAt |-> 3 * ClockStep, refreshExpiresAt |-> 0]],
      [id |-> "C", provider |-> "other",
       secrets |-> [accessToken |-> "at1", refreshToken |-> "rt1", idToken |-> "",
                    accessExpiresAt |-> 3 * ClockStep, refreshExpiresAt |-> ClockStep]],
      [id |-> " ", provider |-> "codex",
       secrets |-> [accessToken |-> "at1", refreshToken |-> "", idToken |-> "",
                    accessExpiresAt |-> 0, refreshExpiresAt |-> 0]],
      [id |-> "C", provider |-> "",
       secrets |-> [accessToken |-> "at1", refreshToken |-> "", idToken |-> "",
                    accessExpiresAt |-> 0, refreshExpiresAt |-> 0]],
      [id |-> "C", provider |-> "codex",
       secrets |-> [accessToken |-> "", refreshToken |-> "", idToken |-> "",
                    accessExpiresAt |-> 0, refreshExpiresAt |-> 0]] }

\* An operation begins: it is counted, and the registry and the secrets it
\* starts from are remembered.  nf is the number of failures injected in it.
Begin(nf) ==
    /\ nops < MaxOps
    /\ faults + nf <= MaxFaults
    /\ nops' = nops + 1
    /\ faults' = faults + nf
    /\ pre' = [state |-> state, secrets |-> secretStore]
    /\ UNCHANGED <<now, inflight, outside>>

Rejected(op, id, err) ==
    /\ ret' = [NoRet EXCEPT !.op = op, !.id = id, !.err = err]
    /\ UNCHANGED <<state, secretStore>>

\* The persisting tail of AddAccount: Put the secrets, Save the registry st1,
\* and on a failed Save delete the secrets again.  st and store are the
\* registry and the secret store before the call.
\* A rollback that is never issued.
AddAccountRollbackSkipped(store, id, delOk) ==
    [store |-> store, deletes |-> 0]

AddAccountRollback(store, id, delOk) ==
    [store |-> SecretDelete(store, id, delOk), deletes |-> 1]

\* The two writes in the other order: Save first, then Put.
AddAccountPersistSaveFirst(st, st1, store, id, sec, putOk, saveOk, delOk) ==
    IF ~saveOk
    THEN [state |-> st, store |-> store, err |-> "ErrPersistState",
          puts |-> 0, saves |-> 1, deletes |-> 0]
    ELSE IF ~putOk
    THEN [state |-> StoreSave(st, st1, TRUE), store |-> store, err |-> "ErrPersistSecrets",
          puts |-> 1, saves |-> 1, deletes |-> 0]
    ELSE [state |-> StoreSave(st, st1, TRUE), store |-> SecretPut(store, id, sec, TRUE),
          err |-> "", puts |-> 1, saves |-> 1, deletes |-> 0]

AddAccountPersist(st, st1, store, id, sec, putOk, saveOk, delOk) ==
    IF ~putOk
    THEN [state |-> st, store |-> store, err |-> "ErrPersistSecrets",
          puts |-> 1, saves |-> 0, deletes |-> 0]
    ELSE IF ~saveOk
    THEN LET rollback == AddAccountRollback(SecretPut(store, id, sec, TRUE), id, delOk)
         IN [state |-> StoreSave(st, st1, FALSE), store |-> rollback.store,
             err |-> "ErrPersistState",
             puts |-> 1, saves |-> 1, deletes |-> rollback.deletes]
    ELSE [state |-> StoreSave(st, st1, TRUE), store |-> SecretPut(store, id, sec, TRUE),
          err |-> "", puts |-> 1, saves |-> 1, deletes |-> 0]

\* The active id AddAccount writes into the registry it saves.
\* The added account made active whatever the active id was.
activeAfterAddAlways(active, id) == id

activeAfterAdd(active, id) == IF active = "" THEN id ELSE active

\* Manager.AddAccount as a function of the registry st, the secret store
\* and the time t it runs at: the registry and the secrets it leaves, the
\* error it returns ("" for none) and the storage calls it made.
addAccount(st, store, in, putOk, saveOk, delOk, t) ==
    LET id == in.id
        rejected(err) == [state |-> st, store |-> store, err |-> err, valid |-> FALSE,
                          puts |-> 0, saves |-> 0, deletes |-> 0]
    IN
    IF IsBlank(id) THEN rejected("id is required")
    ELSE IF IsBlank(in.provider) THEN rejected("provider is required")
    ELSE IF IsBlank(in.secrets.accessToken) THEN rejected("access_token is required")
    ELSE
      LET sec == IF in.secrets.accessExpiresAt = 0
                 THEN [in.secrets EXCEPT !.accessExpiresAt = t + DefaultAccessTTLMinutes * 60]
                 ELSE in.secrets
          createdAt == IF HasAccount(st, id) THEN st.accounts[id].createdAt ELSE t
          acct == [provider |-> NormalizeProvider(in.provider), status |-> "ready",
                   lastAppliedAt |-> 0,
                   accessExpiresAt |-> sec.accessExpiresAt,
                   refreshExpiresAt |-> sec.refreshExpiresAt,
                   lastRefreshAt |-> 0, lastError |-> "", quota |-> ZeroQuota,
                   createdAt |-> createdAt, updatedAt |-> t]
          st1 == [st EXCEPT !.accounts = MapPut(st.accounts, id, acct),
                            !.active = activeAfterAdd(st.active, id)]
          done == AddAccountPersist(st, st1, store, id, sec, putOk, saveOk, delOk)
      IN [state |-> done.state, store |-> done.store, err |-> done.err, valid |-> TRUE,
          puts |-> done.puts, saves |-> done.saves, deletes |-> done.deletes]

\* The storage calls of AddAccount that fail, given how the stores answer.
addAccountFailures(in, putOk, saveOk, delOk) ==
    IF IsBlank(in.id) \/ IsBlank(in.provider) \/ IsBlank(in.secrets.accessToken) THEN {}
    ELSE IF ~putOk THEN {"Put"}
    ELSE IF saveOk THEN {}
    ELSE IF delOk THEN {"Save"} ELSE {"Save", "Delete"}

\* Manager.AddAccount
AddAccount(in, putOk, saveOk, delOk) ==
    LET failed == addAccountFailures(in, putOk, saveOk, delOk) IN
    /\ Begin(Cardinality(failed))
    /\ \E done \in { addAccount(state, secretStore, in, putOk, saveOk, delOk, now) } :
         IF ~done.valid THEN Rejected("AddAccount", in.id, done.err)
         ELSE /\ state' = done.state
              /\ secretStore' = done.store
              /\ ret' = [NoRet EXCEPT !.op = "AddAccount", !.id = in.id, !.valid = TRUE,
                                      !.err = done.err, !.puts = done.puts,
                                      !.saves = done.saves, !.deletes = done.deletes,
                                      !.savedOk = (done.err = ""), !.failed = failed]

\* A status check that lets need_reauth accounts through.
ActivatableUnlessDisabled(acct) == ~(acct.status = "disabled")

\* The status check of SetActiveAccount.
Activatable(acct) == ~(acct.status = "need_reauth" \/ acct.status = "disabled")

\* The registry SetActiveAccount saves: accountID active, its record stamped.
setActive(st, accountID, t) ==
    [st EXCEPT !.active = accountID,
               !.accounts = MapPut(st.accounts, accountID,
                                   [st.accounts[accountID] EXCEPT !.updatedAt = t])]

\* Manager.SetActiveAccount.  applyOk tells whether the credential applier
\* could write the credential file during the call; the Manager has no
\* applier and never invokes one.
SetActiveAccount(accountID, saveOk, applyOk) ==
    LET found == HasAccount(state, accountID)
        ready == found /\ Activatable(state.accounts[accountID])
        base == [NoRet EXCEPT !.op = "SetActiveAccount", !.id = accountID,
                              !.applyOk = applyOk, !.valid = ready]
    IN
    /\ Begin(IF ready /\ ~saveOk THEN 1 ELSE 0)
    /\ IF ~found
       THEN /\ ret' = [base EXCEPT !.err = "account not found"]
            /\ UNCHANGED <<state, secretStore>>
       ELSE IF ~ready
       THEN /\ ret' = [base EXCEPT !.err = "account is not ready"]
            /\ UNCHANGED <<state, secretStore>>
       ELSE
         LET st1 == setActive(state, accountID, now)
         IN /\ state' = StoreSave(state, st1, saveOk)
            /\ ret' = [base EXCEPT !.err = IF saveOk THEN "" ELSE "save failed",
                                   !.saves = 1, !.savedOk = saveOk,
                                   !.failed = IF saveOk THEN {} ELSE {"Save"}]
            /\ UNCHANGED secretStore

StrategyInputs == {"round-robin", "fill-first", "random"}

\* Manager.SetStrategy
SetStrategy(strategy, saveOk) ==
    LET known == strategy \in {"round-robin", "fill-first"}
        base == [NoRet EXCEPT !.op = "SetStrategy", !.id = strategy, !.valid = known]
    IN
    /\ Begin(IF known /\ ~saveOk THEN 1 ELSE 0)
    /\ UNCHANGED secretStore
    /\ IF ~known
       THEN /\ ret' = [base EXCEPT !.err = "invalid strategy"]
            /\ UNCHANGED state
       ELSE /\ state' = StoreSave(state, [state EXCEPT !.strategy = strategy], saveOk)
            /\ ret' = [base EXCEPT !.err = IF saveOk THEN "" ELSE "save failed",
                                   !.saves = 1, !.savedOk = saveOk,
                                   !.failed = IF saveOk THEN {} ELSE {"Save"}]

\* Quota snapshots given to UpdateQuota (model.QuotaSnapshot).
QuotaInputs ==
    { [session |-> 70, weekly |-> 10, limitReached |-> FALSE],
      [session |-> 20, weekly |-> 10, limitReached |-> TRUE],
      [session |-> 150, weekly |-> 0 - 5, limitReached |-> FALSE] }

\* The registry UpdateQuota saves: the account's quota replaced and stamped.
setQuota(st, accountID, quota, t) ==
    LET q == [session |-> quota.session, weekly |-> quota.weekly,
              limitReached |-> quota.limitReached, lastUpdated |-> t]
        acct == [st.accounts[accountID] EXCEPT !.quota = q, !.updatedAt = t]
    IN [st EXCEPT !.accounts = MapPut(st.accounts, accountID, acct)]

\* Manager.UpdateQuota
UpdateQuota(accountID, quota, saveOk) ==
    LET found == HasAccount(state, accountID)
        base == [NoRet EXCEPT !.op = "UpdateQuota", !.id = accountID, !.valid = found]
    IN
    /\ Begin(IF found /\ ~saveOk THEN 1 ELSE 0)
    /\ UNCHANGED secretStore
    /\ IF ~found
       THEN /\ ret' = [base EXCEPT !.err = "account not found"]
            /\ UNCHANGED state
       ELSE
         LET st1 == setQuota(state, accountID, quota, now)
         IN /\ state' = StoreSave(state, st1, saveOk)
            /\ ret' = [base EXCEPT !.err = IF saveOk THEN "" ELSE "save failed",
                                   !.saves = 1, !.savedOk = saveOk,
                                   !.failed = IF saveOk THEN {} ELSE {"Save"}]

----------------------------------------------------------------------------
\* Error messages are sequences of one-character strings.
UpperChars == <<"A", "B", "C", "D", "E", "F", "G", "H", "I", "J", "K", "L", "M",
                "N", "O", "P", "Q", "R", "S", "T", "U", "V", "W", "X", "Y", "Z">>
LowerChars == <<"a", "b", "c", "d", "e", "f", "g", "h", "i", "j", "k", "l", "m",
                "n", "o", "p", "q", "r", "s", "t", "u", "v", "w", "x", "y", "z">>

ToLowerChar(c) ==
    IF \E i \in 1..26 : UpperChars[i] = c
    THEN LowerChars[CHOOSE i \in 1..26 : UpperChars[i] = c]
    ELSE c

\* strings.ToLower
ToLower(msg) == [i \in 1..Len(msg) |-> ToLowerChar(msg[i])]

\* strings.Contains
Contains(msg, p) ==
    \E i \in 0..(Len(msg) - Len(p)) : SubSeq(msg, i + 1, i + Len(p)) = p

\* The patterns of shouldSwitch.
patterns ==
    << <<"q","u","o","t","a"," ","e","x","c","e","e","d","e","d">>,
       <<"r","a","t","e"," ","l","i","m","i","t">>,
       <<"l","i","m","i","t"," ","r","e","a","c","h","e","d">>,
       <<"i","n","s","u","f","f","i","c","i","e","n","t","_","q","u","o","t","a">>,
       <<"r","e","s","o","u","r","c","e","_","e","x","h","a","u","s","t","e","d">>,
       <<"o","v","e","r","l","o","a","d","e","d">>,
       <<"c","a","p","a","c","i","t","y">>,
       <<"t","o","o"," ","m","a","n","y"," ","r","e","q","u","e","s","t","s">>,
       <<"t","h","r","o","t","t","l">>,
       <<"a","u","t","h","e","n","t","i","c","a","t","i","o","n">>,
       <<"u","n","a","u","t","h","o","r","i","z","e","d">>,
       <<"a","c","c","e","s","s"," ","d","e","n","i","e","d">> >>

\* A predicate that looks for the patterns in the message as it came.
shouldSwitchCaseSensitive(statusCode, message) ==
    IF statusCode \in {429, 500, 503} THEN TRUE
    ELSE \E k \in 1..Len(patterns) : Contains(message, patterns[k])

\* A predicate that also switches on the status codes the switch statement
\* lists without acting on them.
shouldSwitchOnListedStatus(statusCode, message) ==
    IF statusCode \in {429, 500, 503} THEN TRUE
    ELSE IF statusCode \in {200, 201, 202, 203, 204, 205, 206, 207, 208, 226,
                            400, 401, 403, 422} THEN TRUE
    ELSE \E k \in 1..Len(patterns) : Contains(ToLower(message), patterns[k])

\* shouldSwitch(statusCode, message)
shouldSwitch(statusCode, message) ==
    IF statusCode \in {429, 500, 503} THEN TRUE
    ELSE LET lower == ToLower(message)
         IN IF \E k \in 1..Len(patterns) : Contains(lower, patterns[k])
            THEN TRUE
            ELSE statusCode = 429 \/ statusCode = 503 \/ statusCode = 500

----------------------------------------------------------------------------
\* What the token endpoint and the secret store do for one candidate during
\* a scan: whether Get and Put succeed, and the endpoint's answer.
RespOk == [transportOk |-> TRUE, status |-> 200, decodeOk |-> TRUE,
           accessToken |-> "at2", idToken |-> "", expiresIn |-> 0]
RespDenied == [RespOk EXCEPT !.status = 401]

EnvOk == [getOk |-> TRUE, resp |-> RespOk, putOk |-> TRUE]
EnvGetErr == [EnvOk EXCEPT !.getOk = FALSE]
EnvRefreshErr == [EnvOk EXCEPT !.resp = RespDenied]
EnvPutErr == [EnvOk EXCEPT !.putOk = FALSE]
Envs == {EnvOk, EnvGetErr, EnvRefreshErr, EnvPutErr}

\* Manager.refreshCodexAccessToken at time t, given the endpoint's answer.
refreshCodexAccessToken(resp, t) ==
    LET none == [err |-> "", accessToken |-> "", idToken |-> "", accessExpiresAt |-> 0]
    IN IF ~resp.transportOk THEN [none EXCEPT !.err = "token endpoint unreachable"]
       ELSE IF resp.status < 200 \/ resp.status > 299
       THEN [none EXCEPT !.err = "token refresh failed: status"]
       ELSE IF ~resp.decodeOk THEN [none EXCEPT !.err = "invalid token response"]
       ELSE IF resp.accessToken = ""
       THEN [none EXCEPT !.err = "token refresh returned empty access_token"]
       ELSE LET expiresIn == IF resp.expiresIn <= 0 THEN DefaultExpiresIn ELSE resp.expiresIn
            IN [err |-> "", accessToken |-> resp.accessToken, idToken |-> resp.idToken,
                accessExpiresAt |-> t + expiresIn]

\* A freshness test that takes a token expiring in exactly 30 seconds as
\* fresh.
tokenFreshAtSkew(s, t) == s.accessExpiresAt = 0 \/ s.accessExpiresAt >= t + FreshSkew

\* The freshness test of ensureFreshToken on the stored secret s at time t.
tokenFresh(s, t) == s.accessExpiresAt = 0 \/ s.accessExpiresAt > t + FreshSkew

\* Manager.ensureFreshToken for account id with record acct, at time t.
\* Yields the error ("" for none), the account record, the secret store, and
\* the numbers of Put calls, refresh calls and failures met.
ensureFreshToken(id, acct, store, env, t) ==
    LET out == [err |-> "", acct |-> acct, store |-> store,
                puts |-> 0, refreshes |-> 0, faults |-> 0]
    IN IF ~env.getOk THEN [out EXCEPT !.err = "secret read failed", !.faults = 1]
       ELSE IF ~SecretHas(store, id) THEN [out EXCEPT !.err = "secret not found"]
       ELSE
         LET s == store[id]
         IN IF tokenFresh(s, t)
            THEN [out EXCEPT !.acct = [acct EXCEPT !.accessExpiresAt = s.accessExpiresAt,
                                                   !.refreshExpiresAt = s.refreshExpiresAt]]
            ELSE IF IsBlank(s.refreshToken)
            THEN [out EXCEPT !.err = "refresh token missing"]
            ELSE IF s.refreshExpiresAt # 0 /\ s.refreshExpiresAt < t
            THEN [out EXCEPT !.err = "refresh token expired"]
            ELSE IF LowerProvider(acct.provider) # "codex"
            THEN [out EXCEPT !.err = "provider refresh is not implemented"]
            ELSE
              LET updated == refreshCodexAccessToken(env.resp, t)
                  s2 == [s EXCEPT !.accessToken = updated.accessToken,
                                  !.accessExpiresAt = updated.accessExpiresAt,
                                  !.idToken = IF updated.idToken # "" THEN updated.idToken ELSE @]
              IN IF updated.err # ""
                 THEN [out EXCEPT !.err = updated.err, !.refreshes = 1, !.faults = 1]
                 ELSE IF ~env.putOk
                 THEN [out EXCEPT !.err = "secret write failed", !.refreshes = 1,
                                  !.puts = 1, !.faults = 1]
                 ELSE [out EXCEPT !.store = SecretPut(store, id, s2, TRUE),
                                  !.refreshes = 1, !.puts = 1,
                                  !.acct = [acct EXCEPT !.accessExpiresAt = s2.accessExpiresAt,
                                                        !.refreshExpiresAt = s2.refreshExpiresAt,
                                                        !.lastRefreshAt = t]]

\* An order that looks at the session window only.
FillFirstLessBySession(st, a, b) ==
    LET left == st.accounts[a].quota.session
        right == st.accounts[b].quota.session
    IN IF left = right THEN StrLess(a, b) ELSE left < right

\* The order of orderedCandidates under fill-first: ascending session plus
\* weekly used-percent, ties by id.
FillFirstLess(st, a, b) ==
    LET left == st.accounts[a].quota.session + st.accounts[a].quota.weekly
        right == st.accounts[b].quota.session + st.accounts[b].quota.weekly
    IN IF left = right THEN StrLess(a, b) ELSE left < right

CandidateLess(st, a, b) ==
    IF st.strategy = "fill-first" THEN FillFirstLess(st, a, b) ELSE StrLess(a, b)

RECURSIVE SortCandidates(_, _)
SortCandidates(st, ids) ==
    IF ids = {} THEN <<>>
    ELSE LET first == CHOOSE a \in ids : \A b \in ids \ {a} : CandidateLess(st, a, b)
         IN <<first>> \o SortCandidates(st, ids \ {first})

\* orderedCandidates(state, activeID)
orderedCandidates(st, activeID) ==
    SortCandidates(st, (DOMAIN st.accounts) \ {activeID})

\* A chosen candidate that keeps the status it had.
ChosenAccountKeepingStatus(acct, t) == [acct EXCEPT !.lastError = "", !.updatedAt = t]

\* A switch that stores the candidate but leaves the active id.
SwitchToKeepingActive(st, accountID, acct) ==
    [st EXCEPT !.accounts[accountID] = acct]

\* A candidate whose token is fresh is set ready and made the active account.
ChosenAccount(acct, t) == [acct EXCEPT !.status = "ready", !.lastError = "", !.updatedAt = t]

\* A switch that drops the account it switches away from.
SwitchToDroppingActive(st, accountID, acct) ==
    [st EXCEPT !.accounts = [id \in (DOMAIN @) \ {st.active} |->
                                IF id = accountID THEN acct ELSE @[id]],
               !.active = accountID]

SwitchTo(st, accountID, acct) ==
    [st EXCEPT !.accounts[accountID] = acct, !.active = accountID]

\* A candidate whose token could not be made fresh is marked need_reauth.
\* A failed candidate that keeps the status it had.
FailedAccountKeepingStatus(acct, err, t) ==
    [acct EXCEPT !.lastError = err, !.updatedAt = t]

\* A failed candidate marked without the failure's message.
FailedAccountWithoutMessage(acct, err, t) ==
    [acct EXCEPT !.status = "need_reauth", !.updatedAt = t]

FailedAccount(acct, err, t) ==
    [acct EXCEPT !.status = "need_reauth", !.lastError = err, !.updatedAt = t]

\* The attempt loop of HandleQuotaError from candidate i of order on: the
\* registry and the secret store as the loop leaves them, and the candidate
\* switched to ("" when the order is exhausted).
RECURSIVE Scan(_, _, _, _, _, _)
Scan(order, i, st, store, env, t) ==
    IF i > Len(order)
    THEN [st |-> st, store |-> store, to |-> "", puts |-> 0, refreshes |-> 0, faults |-> 0]
    ELSE
      LET accountID == order[i]
          acct == st.accounts[accountID]
      IN IF acct.status = "disabled"
         THEN Scan(order, i + 1, st, store, env, t)
         ELSE
           LET r == ensureFreshToken(accountID, acct, store, env[accountID], t)
           IN IF r.err # ""
              THEN LET failed == FailedAccount(r.acct, r.err, t)
                       rest == Scan(order, i + 1,
                                    [st EXCEPT !.accounts[accountID] = failed],
                                    r.store, env, t)
                   IN [rest EXCEPT !.puts = @ + r.puts, !.refreshes = @ + r.refreshes,
                                   !.faults = @ + r.faults]
              ELSE LET chosen == ChosenAccount(r.acct, t)
                   IN [st |-> SwitchTo(st, accountID, chosen),
                       store |-> r.store, to |-> accountID, puts |-> r.puts,
                       refreshes |-> r.refreshes, faults |-> r.faults]

\* Upstream errors reported to HandleQuotaError.
MsgOk == <<"o", "k">>
MsgRateLimit == <<"R", "a", "t", "e", " ", "L", "i", "m", "i", "t">>
ErrorInputs == { <<200, MsgOk>>, <<429, <<>>>>, <<400, MsgRateLimit>> }

\* The environments of one scan: one per way the candidates' Get, refresh
\* and Put can go within the failures still to inject.
ScanEnvs ==
    { env \in [(DOMAIN state.accounts) \ {state.active} -> Envs] :
        Cardinality({id \in DOMAIN env : env[id] # EnvOk}) <= MaxFaults - faults }

\* The two checks HandleQuotaError makes on the loaded registry before it
\* scans, in the order it makes them: the error it returns ("" for none).
\* The same two checks with the registry looked at first.
loadedStateErrorRegistryFirst(st) ==
    IF DOMAIN st.accounts = {} THEN "no accounts configured"
    ELSE IF st.active = "" THEN "no active account configured"
    ELSE ""

loadedStateError(st) ==
    IF st.active = "" THEN "no active account configured"
    ELSE IF DOMAIN st.accounts = {} THEN "no accounts configured"
    ELSE ""

\* Manager.HandleQuotaError
HandleQuotaError(statusCode, errorMessage, env, saveOk) ==
    LET base == [NoRet EXCEPT !.op = "HandleQuotaError", !.statusCode = statusCode,
                              !.message = errorMessage]
        switchable == shouldSwitch(statusCode, errorMessage)
        activeID == state.active
        early == loadedStateError(state)
        runs == switchable /\ early = ""
        order == orderedCandidates(state, activeID)
        scan == Scan(order, 1, state, secretStore, env, now)
    IN
    /\ Begin(IF runs THEN scan.faults + (IF saveOk THEN 0 ELSE 1) ELSE 0)
    /\ IF ~switchable
       THEN /\ ret' = [base EXCEPT !.reason = "not-switchable-error"]
            /\ UNCHANGED <<state, secretStore>>
       ELSE IF early # ""
       THEN /\ ret' = [base EXCEPT !.valid = TRUE, !.err = early]
            /\ UNCHANGED <<state, secretStore>>
       ELSE
         LET did == [base EXCEPT !.valid = TRUE, !.env = env, !.at = now,
                                 !.puts = scan.puts,
                                 !.refreshes = scan.refreshes,
                                 !.saves = 1, !.savedOk = saveOk,
                                 !.failed = IF saveOk THEN {} ELSE {"Save"}]
         IN /\ secretStore' = scan.store
            /\ state' = StoreSave(state, scan.st, saveOk)
            /\ ret' = IF ~saveOk THEN [did EXCEPT !.err = "save failed"]
                      ELSE IF scan.to # ""
                      THEN [did EXCEPT !.switched = TRUE, !.from = activeID,
                                       !.to = scan.to, !.reason = "quota-exceeded"]
                      ELSE [did EXCEPT !.from = activeID,
                                       !.reason = "no-available-account"]

----------------------------------------------------------------------------
\* FileApplier.Apply: the error it returns ("" for none) for an account and
\* its secrets, ioOk telling whether the credential file can be written.
FileApplierApply(acct, sec, ioOk) ==
    IF NormalizeProvider(acct.provider) # "codex" THEN ""
    ELSE IF IsBlank(sec.accessToken) THEN "codex access token is empty"
    ELSE IF ~ioOk THEN "write codex auth file"
    ELSE ""

\* The clock advances between operations.
Tick == /\ now < MaxNow * ClockStep
        /\ now' = now + ClockStep
        /\ UNCHANGED <<state, secretStore, pre, ret, nops, faults, inflight, outside>>

Next ==
    \/ \E in \in AddInputs, putOk \in BOOLEAN, saveOk \in BOOLEAN, delOk \in BOOLEAN :
            AddAccount(in, putOk, saveOk, delOk)
    \/ \E accountID \in AccountIDs, saveOk \in BOOLEAN, applyOk \in BOOLEAN :
            SetActiveAccount(accountID, saveOk, applyOk)
    \/ \E strategy \in StrategyInputs, saveOk \in BOOLEAN :
            SetStrategy(strategy, saveOk)
    \/ \E accountID \in AccountIDs, quota \in QuotaInputs, saveOk \in BOOLEAN :
            UpdateQuota(accountID, quota, saveOk)
    \/ \E e \in ErrorInputs, env \in ScanEnvs, saveOk \in BOOLEAN :
            HandleQuotaError(e[1], e[2], env, saveOk)
    \/ Tick

Spec == Init /\ [][Next]_vars

----------------------------------------------------------------------------
\* Quota sync.

\* quota.clampUsedPercent: a percentage given in tenths, rounded to the
\* nearest integer (halves away from zero) and clamped to 0..100.
clampUsedPercent(tenths) ==
    LET v == IF tenths >= 0 THEN (tenths + 5) \div 10 ELSE 0 - ((5 - tenths) \div 10)
    IN IF v < 0 THEN 0 ELSE IF v > 100 THEN 100 ELSE v

\* quota.toWindow: a window of the usage response, absent or with its
\* used_percent in tenths and its reset time in Unix seconds; a reset time
\* that is not positive leaves ResetAt the zero time.
toWindow(raw) ==
    [present |-> raw.present,
     usedPercent |-> IF raw.present THEN clampUsedPercent(raw.tenths) ELSE 0,
     resetAt |-> IF raw.present /\ raw.resetsAt > 0 THEN raw.resetsAt ELSE 0]

\* Answers of the usage endpoint: both windows, one of them over 100 percent;
\* the secondary window only; and a server error.
NoWindow == [present |-> FALSE, tenths |-> 0, resetsAt |-> 0]
UsageBoth == [transportOk |-> TRUE, status |-> 200, hasRateLimit |-> TRUE,
              limitReached |-> FALSE,
              primary |-> [present |-> TRUE, tenths |-> 214, resetsAt |-> 0],
              secondary |-> [present |-> TRUE, tenths |-> 1505, resetsAt |-> 0]]
UsageSecondaryOnly == [UsageBoth EXCEPT !.primary = NoWindow,
                                        !.secondary = [present |-> TRUE, tenths |-> 21,
                                                       resetsAt |-> 0]]
UsageDown == [UsageBoth EXCEPT !.status = 500]
UsageAnswers == {UsageBoth, UsageSecondaryOnly, UsageDown}

\* 24 * time.Hour in seconds.
Day == 86400

\* A test that takes a reset exactly 24h ahead as far already.
looksLikeWeeklyOnlyPrimaryFrom24h(primary, t) ==
    primary.present /\ primary.resetAt # 0 /\ primary.resetAt >= t + Day

\* looksLikeWeeklyOnlyPrimary(primary, now)
looksLikeWeeklyOnlyPrimary(primary, t) ==
    primary.present /\ primary.resetAt # 0 /\ primary.resetAt > t + Day

\* secondaryLooksPlaceholder(secondary)
secondaryLooksPlaceholder(secondary) ==
    secondary.present /\ secondary.usedPercent = 0 /\ secondary.resetAt = 0

\* quota.FetchCodexSnapshot at time t: the error ("" for none) and the
\* snapshot.
FetchCodexSnapshot(accessToken, resp, t) ==
    LET absent == toWindow(NoWindow)
        none == [err |-> "", session |-> absent, weekly |-> absent,
                 limitReached |-> FALSE, sessionUnsupported |-> FALSE]
        primary == toWindow(resp.primary)
        secondary == IF secondaryLooksPlaceholder(toWindow(resp.secondary))
                        /\ looksLikeWeeklyOnlyPrimary(primary, t)
                     THEN absent ELSE toWindow(resp.secondary)
        snap == [none EXCEPT !.limitReached = resp.limitReached]
    IN IF IsBlank(accessToken) THEN [none EXCEPT !.err = "codex access token is empty"]
       ELSE IF ~resp.transportOk THEN [none EXCEPT !.err = "usage endpoint unreachable"]
       ELSE IF resp.status < 200 \/ resp.status > 299
       THEN [none EXCEPT !.err = "quota usage request failed"]
       ELSE IF ~resp.hasRateLimit
       THEN [none EXCEPT !.err = "quota usage response missing rate_limit"]
       ELSE IF secondary.present
       THEN [snap EXCEPT !.session = primary, !.weekly = secondary]
       ELSE IF looksLikeWeeklyOnlyPrimary(primary, t)
       THEN [snap EXCEPT !.weekly = primary, !.sessionUnsupported = TRUE]
       ELSE [snap EXCEPT !.session = primary]

\* A merge that takes over the snapshot's windows as they are, a missing
\* one as zero used.
mergeQuotaSnapshotOverwriting(current, snap, t) ==
    [session |-> snap.session.usedPercent, weekly |-> snap.weekly.usedPercent,
     limitReached |-> snap.limitReached \/ snap.session.usedPercent >= 100
                                        \/ snap.weekly.usedPercent >= 100,
     lastUpdated |-> t]

\* mergeQuotaSnapshot: a window missing from the snapshot keeps the stored
\* value; limit_reached is the snapshot's signal or a merged window at 100.
mergeQuotaSnapshot(current, snap, t) ==
    LET session == IF snap.session.present THEN snap.session.usedPercent ELSE current.session
        weekly == IF snap.weekly.present THEN snap.weekly.usedPercent ELSE current.weekly
    IN [session |-> session, weekly |-> weekly,
        limitReached |-> snap.limitReached \/ session >= 100 \/ weekly >= 100,
        lastUpdated |-> t]

\* Whether the sync of one account goes on to the quota fetcher, given the
\* error of its token refresh.
\* A sync that fetches whatever the refresh did.
fetchesAfterAnyRefresh(refreshErr) == TRUE

fetchesAfter(refreshErr) == refreshErr = ""

\* The sync of one account (SyncQuotaFromCodexAPI) on registry st and secret
\* store, at time t: the registry and store it leaves, its error, the
\* account it resolved, and its calls.
syncOne(st, store, accountID, env, resp, t) ==
    LET id == IF accountID = "" THEN st.active ELSE accountID
        out == [st |-> st, store |-> store, id |-> id, err |-> "", valid |-> FALSE,
                fetches |-> 0, puts |-> 0, refreshes |-> 0, faults |-> 0]
    IN IF id = "" THEN [out EXCEPT !.err = "no active account configured"]
       ELSE IF ~HasAccount(st, id) THEN [out EXCEPT !.err = "account not found"]
       ELSE IF NormalizeProvider(st.accounts[id].provider) # "codex"
       THEN [out EXCEPT !.err = "provider is not supported"]
       ELSE
         LET r == ensureFreshToken(id, st.accounts[id], store, env, t)
             did == [out EXCEPT !.valid = TRUE, !.store = r.store, !.puts = r.puts,
                                !.refreshes = r.refreshes, !.faults = r.faults]
             marked == IF r.err = "" THEN st
                       ELSE [st EXCEPT !.accounts[id] = FailedAccount(r.acct, r.err, t)]
             token == IF SecretHas(r.store, id) THEN r.store[id].accessToken ELSE ""
             f == FetchCodexSnapshot(token, resp, t)
             fetchFault == IF f.err # "" /\ ~IsBlank(token) THEN 1 ELSE 0
         IN IF ~fetchesAfter(r.err) THEN [did EXCEPT !.st = marked, !.err = r.err]
            ELSE IF r.err # ""
            THEN [did EXCEPT !.st = marked, !.err = r.err, !.fetches = 1]
            ELSE IF f.err # ""
            THEN [did EXCEPT !.err = f.err, !.fetches = 1, !.faults = @ + fetchFault]
            ELSE [did EXCEPT !.fetches = 1,
                     !.st = [st EXCEPT !.accounts[id] =
                                [r.acct EXCEPT !.quota = mergeQuotaSnapshot(@, f, t),
                                               !.updatedAt = t]]]

\* Manager.SyncQuotaFromCodexAPI
SyncQuotaFromCodexAPI(accountID, env, resp) ==
    LET res == syncOne(state, secretStore, accountID, env, resp, now)
    IN /\ Begin(res.faults)
       /\ state' = res.st
       /\ secretStore' = res.store
       /\ ret' = [NoRet EXCEPT !.op = "SyncQuota", !.id = res.id, !.valid = res.valid,
                               !.err = res.err, !.fetches = res.fetches,
                               !.puts = res.puts, !.refreshes = res.refreshes,
                               !.at = now,
                               !.env = [i \in {res.id} |-> env],
                               !.resps = [i \in {res.id} |-> resp]]

\* Whether the sync of all accounts goes on after an account whose sync
\* returned err.
\* A sync of all accounts that stops at the first failure.
syncAllStopsAtError(err) == err = ""

syncAllGoesOn(err) == TRUE

\* The accounts of a registry in ascending id order.
RECURSIVE SortIds(_)
SortIds(ids) ==
    IF ids = {} THEN <<>>
    ELSE LET first == CHOOSE a \in ids : \A b \in ids \ {a} : StrLess(a, b)
         IN <<first>> \o SortIds(ids \ {first})

\* One turn of the loop of SyncAllQuotasFromCodexAPI: the outcome one of
\* account id's sync added to what the turns before it left in acc.
syncAllEntry(acc, id, one) ==
    [st |-> one.st, store |-> one.store,
     results |-> Append(acc.results,
                        [accountID |-> id, success |-> one.err = "", err |-> one.err]),
     fetches |-> acc.fetches + one.fetches,
     faults |-> acc.faults + one.faults,
     stopped |-> ~syncAllGoesOn(one.err)]

syncAllStep(acc, id, env, resp, t) ==
    syncAllEntry(acc, id, syncOne(acc.st, acc.store, id, env, resp, t))

\* The loop of SyncAllQuotasFromCodexAPI from account i of order on.
RECURSIVE syncAll(_, _, _, _, _, _)
syncAll(order, i, acc, envs, resps, t) ==
    IF i > Len(order) \/ acc.stopped THEN acc
    ELSE syncAll(order, i + 1,
                 syncAllStep(acc, order[i], envs[order[i]], resps[order[i]], t),
                 envs, resps, t)

\* The number of entries of results that succeeded (TRUE) or failed (FALSE).
CountResults(results, success) ==
    Cardinality({i \in 1..Len(results) : results[i].success = success})

\* Manager.SyncAllQuotasFromCodexAPI
SyncAllQuotasFromCodexAPI(envs, resps) ==
    \E res \in { syncAll(SortIds(DOMAIN state.accounts), 1,
                         [st |-> state, store |-> secretStore, results |-> <<>>,
                          fetches |-> 0, faults |-> 0, stopped |-> FALSE],
                         envs, resps, now) } :
       /\ Begin(res.faults)
       /\ state' = res.st
       /\ secretStore' = res.store
       /\ ret' = [NoRet EXCEPT !.op = "SyncAll", !.valid = TRUE, !.at = now,
                               !.env = envs, !.resps = resps,
                               !.fetches = res.fetches,
                               !.results = res.results,
                               !.total = Len(res.results),
                               !.succeeded = CountResults(res.results, TRUE),
                               !.failedCount = CountResults(res.results, FALSE)]

\* The ways the secret store, the token endpoint and the usage endpoint can
\* answer for one account within the failures still to inject.
SyncAnswers ==
    { a \in Envs \X UsageAnswers :
        (IF a[1] # EnvOk THEN 1 ELSE 0) + (IF a[2] = UsageDown THEN 1 ELSE 0)
            <= MaxFaults - faults }

\* The same for a sync of all accounts: the accounts bad meet one failure
\* each, the others get both windows from the usage endpoint.
SyncFailures ==
    { <<EnvGetErr, UsageBoth>>, <<EnvRefreshErr, UsageBoth>>, <<EnvPutErr, UsageBoth>>,
      <<EnvOk, UsageDown>> }

SyncAllAnswers ==
    UNION { { [id \in DOMAIN state.accounts |->
                  IF id \in bad THEN f[id] ELSE <<EnvOk, UsageBoth>>] :
              f \in [bad -> SyncFailures] } :
            bad \in { b \in SUBSET DOMAIN state.accounts :
                        Cardinality(b) <= MaxFaults - faults } }

NextSync ==
    \/ \E in \in AddInputs : in.provider = "other" /\ AddAccount(in, TRUE, TRUE, TRUE)
    \/ \E accountID \in {"", "B", "C"}, a \in SyncAnswers :
            SyncQuotaFromCodexAPI(accountID, a[1], a[2])
    \/ \E a \in SyncAllAnswers :
            SyncAllQuotasFromCodexAPI([id \in DOMAIN a |-> a[id][1]],
                                      [id \in DOMAIN a |-> a[id][2]])
    \/ Tick

SpecSync == Init /\ [][NextSync]_vars

----------------------------------------------------------------------------
\* Requests served at the same time.  Each handler goroutine runs one
\* Manager operation as the steps other goroutines can interleave with:
\* Lock and Load, the work on the loaded registry, Save and Unlock.

\* The operations requested: a switch-worthy error report, a strategy change,
\* and the two reads.
ConcOps == { <<"HandleQuotaError", "">>, <<"SetStrategy", "round-robin">>,
             <<"SetStrategy", "fill-first">>, <<"Status", "">>,
             <<"ListAccounts", "">> }

\* The operations that take Manager.mu.
Locks(op) == op \in {"AddAccount", "SetActiveAccount", "SetStrategy", "UpdateQuota",
                    "HandleQuotaError"}

\* m.mu.Lock() returns only when no goroutine holds the mutex.
\* A Lock that returns at once.
muFreeAlways(m) == TRUE

muFree(m) == m = ""

\* The context handleSwitchOnError hands to HandleQuotaError for the request
\* of caller c: "background" is context.Background().
\* The context of the request itself.
switchContextOfRequest(c) == c

switchContext(c) == "background"

\* ctx.Done() is closed: the background context never is, the context of a
\* request is once the request is cancelled.
ctxDone(ctx) == ctx # "background" /\ calls[ctx].cancelled

\* The token endpoint called with a context that is done.
RespCancelled == [RespOk EXCEPT !.transportOk = FALSE]
EnvCancelled == [EnvOk EXCEPT !.resp = RespCancelled]

\* The order of ListAccounts: latest update first, then ascending id.
AccountBefore(st, a, b) ==
    IF st.accounts[a].updatedAt = st.accounts[b].updatedAt
    THEN StrLess(a, b)
    ELSE st.accounts[a].updatedAt > st.accounts[b].updatedAt

RECURSIVE SortAccounts(_, _)
SortAccounts(st, ids) ==
    IF ids = {} THEN <<>>
    ELSE LET first == CHOOSE a \in ids : \A b \in ids \ {a} : AccountBefore(st, a, b)
         IN <<[id |-> first, account |-> st.accounts[first]]>>
            \o SortAccounts(st, ids \ {first})

\* The list Manager.ListAccounts builds from a loaded registry.
ListAccountsOf(st) == SortAccounts(st, DOMAIN st.accounts)

\* A request arrives and its handler calls the Manager.
Request(c, op, arg) ==
    /\ calls[c].pc = "idle"
    /\ calls' = [calls EXCEPT ![c] = [@ EXCEPT !.pc = "called", !.op = op, !.arg = arg,
                                               !.calledAt = Len(hist)]]
    /\ UNCHANGED <<state, secretStore, now, pre, ret, nops, faults, outside, mu, hist>>

\* The client goes away while its request is being served.
Cancel(c) ==
    /\ calls[c].pc \notin {"idle", "done"}
    /\ ~calls[c].cancelled
    /\ calls' = [calls EXCEPT ![c].cancelled = TRUE]
    /\ UNCHANGED <<state, secretStore, now, pre, ret, nops, faults, outside, mu, hist>>

\* m.mu.Lock() and stateStore.Load() of a mutating operation.
Enter(c) ==
    /\ calls[c].pc = "called"
    /\ Locks(calls[c].op)
    /\ muFree(mu)
    /\ mu' = c
    /\ calls' = [calls EXCEPT ![c] = [@ EXCEPT !.pc = "loaded", !.loaded = state,
                                               !.loadedAt = Len(hist)]]
    /\ UNCHANGED <<state, secretStore, now, pre, ret, nops, faults, outside, hist>>

\* AddAccount, SetActiveAccount and UpdateQuota between their Load and
\* their Save, on the registry st they loaded, with stores that answer: the
\* registry they save (saves tells whether they reach the Save), the secret
\* store they leave and the error they return.
Mutation(op, arg, st, store, t) ==
    LET refused(err) == [saves |-> FALSE, next |-> st, store |-> store, err |-> err]
    IN IF op = "AddAccount"
       THEN LET done == addAccount(st, store, arg, TRUE, TRUE, TRUE, t)
            IN [saves |-> done.saves > 0, next |-> done.state, store |-> done.store,
                err |-> done.err]
       ELSE IF op = "SetActiveAccount"
       THEN IF ~HasAccount(st, arg) THEN refused("account not found")
            ELSE IF ~Activatable(st.accounts[arg]) THEN refused("account is not ready")
            ELSE [saves |-> TRUE, next |-> setActive(st, arg, t), store |-> store,
                  err |-> ""]
       ELSE IF ~HasAccount(st, arg[1]) THEN refused("account not found")
            ELSE [saves |-> TRUE, next |-> setQuota(st, arg[1], arg[2], t),
                  store |-> store, err |-> ""]

\* The work of a mutating operation on the registry it loaded: the scan of
\* HandleQuotaError with its token refreshes, the new strategy, or the
\* added account, the new active account or the new quota.
Decide(c) ==
    LET call == calls[c]
        st == call.loaded
        early == loadedStateError(st)
        ctx == switchContext(c)
        order == orderedCandidates(st, st.active)
        env == [id \in (DOMAIN st.accounts) \ {st.active} |->
                    IF ctxDone(ctx) THEN EnvCancelled ELSE EnvOk]
        scan == Scan(order, 1, st, secretStore, env, now)
        seen == [call EXCEPT !.pc = "decided", !.secrets = secretStore,
                             !.at = now, !.cancelledAtScan = call.cancelled]
    IN
    /\ call.pc = "loaded"
    /\ IF call.op \in {"AddAccount", "SetActiveAccount", "UpdateQuota"}
       THEN \E m \in { Mutation(call.op, call.arg, st, secretStore, now) } :
              /\ secretStore' = m.store
              /\ calls' = [calls EXCEPT ![c] = [seen EXCEPT !.next = m.next,
                                                            !.saves = m.saves,
                                                            !.out.err = m.err]]
       ELSE IF call.op = "SetStrategy"
       THEN /\ calls' = [calls EXCEPT ![c] =
                            [seen EXCEPT !.next = [st EXCEPT !.strategy = call.arg],
                                         !.saves = TRUE]]
            /\ UNCHANGED secretStore
       ELSE IF early # ""
       THEN /\ calls' = [calls EXCEPT ![c] = [seen EXCEPT !.out.err = early]]
            /\ UNCHANGED secretStore
       ELSE /\ secretStore' = scan.store
            /\ calls' = [calls EXCEPT ![c] =
                  [seen EXCEPT !.next = scan.st, !.saves = TRUE,
                               !.out = IF scan.to # ""
                                       THEN [NoOut EXCEPT !.switched = TRUE,
                                                          !.from = st.active,
                                                          !.to = scan.to,
                                                          !.reason = "quota-exceeded"]
                                       ELSE [NoOut EXCEPT !.from = st.active,
                                                          !.reason = "no-available-account"]]]
    /\ UNCHANGED <<state, now, pre, ret, nops, faults, outside, mu, hist>>

\* stateStore.Save() where the operation has one, the deferred m.mu.Unlock()
\* and the return.
Leave(c) ==
    /\ calls[c].pc = "decided"
    /\ IF calls[c].saves
       THEN /\ state' = calls[c].next
            /\ hist' = Append(hist, calls[c].next)
       ELSE UNCHANGED <<state, hist>>
    /\ mu' = ""
    /\ calls' = [calls EXCEPT ![c] = [@ EXCEPT !.pc = "done", !.savedAs = Len(hist')]]
    /\ UNCHANGED <<secretStore, now, pre, ret, nops, faults, outside>>

\* Manager.Status, first half: its call of ListAccounts, which loads the
\* registry without taking the mutex.
StatusList(c) ==
    /\ calls[c].pc = "called"
    /\ calls[c].op = "Status"
    /\ calls' = [calls EXCEPT ![c] = [@ EXCEPT !.pc = "listed",
                                               !.list = ListAccountsOf(state)]]
    /\ UNCHANGED <<state, secretStore, now, pre, ret, nops, faults, outside, mu, hist>>

\* Manager.Status, second half: its own Load, again without the mutex, and
\* the snapshot put together from the two.
StatusLoad(c) ==
    /\ calls[c].pc = "listed"
    /\ calls' = [calls EXCEPT ![c] =
                    [@ EXCEPT !.pc = "done",
                              !.out = [NoOut EXCEPT !.active = state.active,
                                                    !.strategy = state.strategy,
                                                    !.accounts = calls[c].list]]]
    /\ UNCHANGED <<state, secretStore, now, pre, ret, nops, faults, outside, mu, hist>>

\* Manager.ListAccounts called on its own.
ListAccounts(c) ==
    /\ calls[c].pc = "called"
    /\ calls[c].op = "ListAccounts"
    /\ calls' = [calls EXCEPT ![c] =
                    [@ EXCEPT !.pc = "done",
                              !.out = [NoOut EXCEPT !.accounts = ListAccountsOf(state)]]]
    /\ UNCHANGED <<state, secretStore, now, pre, ret, nops, faults, outside, mu, hist>>

NextConc ==
    \/ \E c \in Callers, o \in ConcOps : Request(c, o[1], o[2])
    \/ \E c \in Callers : Cancel(c)
    \/ \E c \in Callers : Enter(c)
    \/ \E c \in Callers : Decide(c)
    \/ \E c \in Callers : Leave(c)
    \/ \E c \in Callers : StatusList(c)
    \/ \E c \in Callers : StatusLoad(c)
    \/ \E c \in Callers : ListAccounts(c)
    \/ Tick

SpecConc == Init /\ [][NextConc]_vars

\* The mutating operations requested together: an account added, an account
\* made active, the strategy changed, a quota recorded, and a switch-worthy
\* error reported.
MutatingOps ==
    { <<"AddAccount", [id |-> "B", provider |-> "codex",
                       secrets |-> [accessToken |-> "at1", refreshToken |-> "rt1",
                                    idToken |-> "", accessExpiresAt |-> 0,
                                    refreshExpiresAt |-> 0]]>>,
      <<"SetActiveAccount", "B">>,
      <<"SetActiveAccount", "C">>,
      <<"SetStrategy", "fill-first">>,
      <<"UpdateQuota", <<"A", [session |-> 70, weekly |-> 10, limitReached |-> FALSE]>>>>,
      <<"HandleQuotaError", "">> }

NextMutators ==
    \/ \E c \in Callers, o \in MutatingOps : Request(c, o[1], o[2])
    \/ \E c \in Callers : Enter(c)
    \/ \E c \in Callers : Decide(c)
    \/ \E c \in Callers : Leave(c)
    \/ Tick

SpecMutators == Init /\ [][NextMutators]_vars

----------------------------------------------------------------------------
\* The OAuth session engine (oauth.Service).  Every section of code that
\* holds Service.mu is one step; the token exchange and AddAccount run
\* between two such sections with the mutex released.

\* The lifetime of a session in seconds.
SessionLifetime == 600

\* The state nonces randomURLSafe hands out, and the configured providers.
Nonces == DOMAIN NoPoll.seen
Providers == {"codex"}

\* time.Now().UTC().After(sess.ExpiresAt)
sessionExpired(sess, t) == t > sess.expiresAt

\* Service.Start.  randOk: crypto/rand could be read.  The nonces are
\* interchangeable: a new session gets the first one not in use.
Start(provider, randOk) ==
    /\ faults + (IF randOk THEN 0 ELSE 1) <= MaxFaults
    /\ faults' = faults + (IF randOk THEN 0 ELSE 1)
    /\ Cardinality(DOMAIN sessions) < MaxSessions
    /\ IF NormalizeProvider(provider) \notin Providers
       THEN UNCHANGED sessions
       ELSE IF ~randOk
       THEN UNCHANGED sessions
       ELSE LET n == IF "s1" \notin DOMAIN sessions THEN "s1"
                     ELSE IF "s2" \notin DOMAIN sessions THEN "s2" ELSE "s3"
                snap == [provider |-> NormalizeProvider(provider), status |-> "pending",
                         accountID |-> "", error |-> "",
                         expiresAt |-> now + SessionLifetime]
            IN sessions' = MapPut(sessions, n, snap)
    /\ UNCHANGED <<state, secretStore, now, pre, ret, nops, inflight, edge, callbacks, polled>>

\* Service.Status (oauth)
OAuthStatus(n) ==
    /\ polled.count < MaxPolls
    /\ IF n \notin DOMAIN sessions
       THEN /\ polled' = [polled EXCEPT !.count = @ + 1, !.state = n,
                                        !.err = "state not found",
                                        !.snapshot = NoSession]
            /\ UNCHANGED sessions
       ELSE LET sess == sessions[n]
                snap == IF sess.status = "pending" /\ sessionExpired(sess, now)
                        THEN [sess EXCEPT !.status = "expired",
                                          !.error = "oauth session expired"]
                        ELSE sess
            IN /\ sessions' = [sessions EXCEPT ![n] = snap]
               /\ polled' = [polled EXCEPT !.count = @ + 1, !.state = n, !.err = "",
                                           !.snapshot = snap,
                                           !.seen[n] = snap.status]
    /\ UNCHANGED <<state, secretStore, now, pre, ret, nops, faults, inflight, edge, callbacks>>

\* The queries the browser's redirect can carry.
CallbackQueries ==
    { [state |-> n, code |-> "c1", error |-> ""] : n \in {"s1", "s2", ""} }
    \cup { [state |-> "s1", code |-> "", error |-> "access_denied"],
           [state |-> "s1", code |-> "", error |-> ""] }

\* fmt.Sprintf("oauth error: %s", errMsg) for the errors of the queries.
oauthErrorMessage(errMsg) ==
    CASE errMsg = "access_denied" -> "oauth error: access_denied"
      [] OTHER -> "oauth error: "

\* HandleCallback up to the first release of Service.mu, and the checks of
\* the query that follow it.  The goroutines are interchangeable: they take
\* their requests in order.
CallbackCheck(c, q) ==
    LET cb == [callbacks[c] EXCEPT !.state = q.state, !.code = q.code,
                                   !.error = q.error]
        done(msg) == [cb EXCEPT !.pc = "done", !.ok = FALSE, !.page = msg]
    IN
    /\ callbacks[c].pc = "idle"
    /\ \A d \in Callers : (d = "h1" /\ c = "h2") => callbacks[d].pc # "idle"
    /\ IF q.state = ""
       THEN /\ callbacks' = [callbacks EXCEPT ![c] = done("missing state")]
            /\ UNCHANGED sessions
       ELSE IF q.state \notin DOMAIN sessions
       THEN /\ callbacks' = [callbacks EXCEPT ![c] = done("unknown state")]
            /\ UNCHANGED sessions
       ELSE IF sessions[q.state].provider \notin Providers
       THEN /\ sessions' = [sessions EXCEPT ![q.state].status = "error",
                                            ![q.state].error = "provider config missing"]
            /\ callbacks' = [callbacks EXCEPT ![c] = done("provider config missing")]
       ELSE IF sessionExpired(sessions[q.state], now)
       THEN /\ sessions' = [sessions EXCEPT ![q.state].status = "expired",
                                            ![q.state].error = "oauth session expired"]
            /\ callbacks' = [callbacks EXCEPT ![c] = done("oauth session expired")]
       ELSE /\ UNCHANGED sessions
            /\ callbacks' = [callbacks EXCEPT ![c] =
                 IF q.error # ""
                 THEN [cb EXCEPT !.pc = "fail", !.msg = oauthErrorMessage(q.error),
                                 !.page = q.error]
                 ELSE IF q.code = ""
                 THEN [cb EXCEPT !.pc = "fail", !.msg = "missing authorization code",
                                 !.page = "missing authorization code"]
                 ELSE [cb EXCEPT !.pc = "exchange"]]
    /\ UNCHANGED <<state, secretStore, now, pre, ret, nops, faults, inflight, edge, polled>>

\* The answers of the token endpoint: tokens with an id token that names an
\* email, tokens without an id token, a body without access token, and a
\* refusal.
TokenOk == [status |-> 200, accessToken |-> "at2", refreshToken |-> "rt2",
            idToken |-> "jwt-email", expiresIn |-> 0, refreshExpiresIn |-> 0]
TokenAnswers ==
    { TokenOk,
      [TokenOk EXCEPT !.idToken = "", !.expiresIn = 2 * ClockStep],
      [TokenOk EXCEPT !.accessToken = ""],
      [TokenOk EXCEPT !.status = 400] }

\* Service.exchangeCode: the error ("" for none) and the secrets it returns.
exchangeCode(resp, t) ==
    IF resp.status < 200 \/ resp.status > 299
    THEN [err |-> "token exchange failed", secrets |-> EmptySecrets]
    ELSE IF resp.accessToken = ""
    THEN [err |-> "token exchange returned empty access_token", secrets |-> EmptySecrets]
    ELSE [err |-> "",
          secrets |-> [accessToken |-> resp.accessToken,
                       refreshToken |-> resp.refreshToken,
                       idToken |-> resp.idToken,
                       accessExpiresAt |->
                           t + (IF resp.expiresIn <= 0 THEN DefaultExpiresIn
                                ELSE resp.expiresIn),
                       refreshExpiresAt |->
                           IF resp.refreshExpiresIn > 0 THEN t + resp.refreshExpiresIn
                           ELSE 0]]

\* The token exchange of HandleCallback, made without Service.mu.
CallbackExchange(c, resp) ==
    LET got == exchangeCode(resp, now)
        nf == IF got.err = "" THEN 0 ELSE 1
    IN
    /\ callbacks[c].pc = "exchange"
    /\ faults + nf <= MaxFaults
    /\ faults' = faults + nf
    /\ callbacks' = [callbacks EXCEPT ![c] =
         IF got.err # ""
         THEN [@ EXCEPT !.pc = "fail", !.msg = got.err, !.page = got.err]
         ELSE [@ EXCEPT !.pc = "add", !.tokens = got.secrets]]
    /\ UNCHANGED <<state, secretStore, now, pre, ret, nops, inflight, edge, sessions, polled>>

\* decodeIdentityFromIDToken for the id tokens of the answers: the email and
\* the account id of the token's claims.
decodeIdentityFromIDToken(idToken) ==
    CASE idToken = "jwt-email" -> [email |-> "U@x", accountID |-> "acct1"]
      [] OTHER -> [email |-> "", accountID |-> ""]

\* buildAccountID for the identities above, the email trimmed and in lower
\* case; the last case is the UTC timestamp of the call.
buildAccountID(provider, email, accountID, t) ==
    IF email # "" THEN "codex:u@x"
    ELSE IF accountID # "" THEN "codex:acct1"
    ELSE IF t <= ClockStep THEN "codex:19700101000030"
    ELSE IF t <= ClockStep + SessionLifetime THEN "codex:19700101001030"
    ELSE "codex:19700101002030"

\* The message shown for an AddAccount that returned no sentinel error.
classifyAddAccountErrorRaw(err) == err

\* classifyAddAccountError: the message of the session and the page.
classifyAddAccountError(err) ==
    IF err = "ErrPersistSecrets" THEN "failed to store OAuth credentials locally"
    ELSE IF err = "ErrPersistState" THEN "failed to persist account metadata locally"
    ELSE err

\* The call HandleCallback makes to Manager.AddAccount.
CallbackAdd(c, putOk, saveOk, delOk) ==
    LET cb == callbacks[c]
        cfg == sessions[cb.state].provider
        who == decodeIdentityFromIDToken(cb.tokens.idToken)
        accountID == buildAccountID(cfg, who.email, who.accountID, now)
        in == [id |-> accountID, provider |-> cfg, secrets |-> cb.tokens]
        nf == Cardinality(addAccountFailures(in, putOk, saveOk, delOk))
    IN
    /\ cb.pc = "add"
    /\ faults + nf <= MaxFaults
    /\ faults' = faults + nf
    /\ \E done \in { addAccount(state, secretStore, in, putOk, saveOk, delOk, now) } :
         /\ state' = done.state
         /\ secretStore' = done.store
         /\ callbacks' = [callbacks EXCEPT ![c] =
              IF done.err # ""
              THEN [cb EXCEPT !.pc = "fail", !.account = accountID,
                              !.addErr = done.err,
                              !.msg = classifyAddAccountError(done.err),
                              !.page = classifyAddAccountError(done.err)]
              ELSE [cb EXCEPT !.pc = "complete", !.account = accountID,
                              !.added = TRUE,
                              !.stored = /\ HasAccount(done.state, accountID)
                                         /\ SecretHas(done.store, accountID)]]
    /\ UNCHANGED <<now, pre, ret, nops, inflight, edge, sessions, polled>>

\* Service.failSession
failSession(table, n, msg) ==
    IF n \in DOMAIN table
    THEN [table EXCEPT ![n].status = "error", ![n].error = msg]
    ELSE table

\* Service.completeSession
completeSession(table, n, accountID) ==
    IF n \in DOMAIN table
    THEN [table EXCEPT ![n].status = "success", ![n].accountID = accountID,
                       ![n].error = ""]
    ELSE table

\* The end of HandleCallback: failSession or completeSession, then the page.
CallbackFinish(c) ==
    LET cb == callbacks[c]
        table == IF cb.pc = "fail" THEN failSession(sessions, cb.state, cb.msg)
                 ELSE completeSession(sessions, cb.state, cb.account)
    IN
    /\ cb.pc \in {"fail", "complete"}
    /\ sessions' = table
    /\ callbacks' = [callbacks EXCEPT ![c] =
         [cb EXCEPT !.pc = "done", !.found = sessions[cb.state],
                    !.wrote = table[cb.state], !.finishedAt = now,
                    !.ok = (cb.pc = "complete"),
                    !.page = IF cb.pc = "complete" THEN "Switchly login succeeded"
                             ELSE cb.page]]
    /\ UNCHANGED <<state, secretStore, now, pre, ret, nops, faults, inflight, edge, polled>>

\* A session's lifetime goes by.
Elapse ==
    /\ now < MaxNow * SessionLifetime
    /\ now' = now + SessionLifetime
    /\ UNCHANGED <<state, secretStore, pre, ret, nops, faults, inflight, outside>>

NextOAuth ==
    \/ \E provider \in {"codex", " Codex ", "other"}, randOk \in BOOLEAN :
            Start(provider, randOk)
    \/ \E n \in {"s1", "s2"} : OAuthStatus(n)
    \/ \E c \in Callers, q \in CallbackQueries : CallbackCheck(c, q)
    \/ \E c \in Callers, resp \in TokenAnswers : CallbackExchange(c, resp)
    \/ \E c \in Callers, putOk \in BOOLEAN, saveOk \in BOOLEAN, delOk \in BOOLEAN :
            CallbackAdd(c, putOk, saveOk, delOk)
    \/ \E c \in Callers : CallbackFinish(c)
    \/ Elapse

\* The daemon starts with an empty registry.
InitOAuth == Init /\ state = DefaultState

SpecOAuth == InitOAuth /\ [][NextOAuth]_vars

----------------------------------------------------------------------------
\* Import of the local codex login (POST /v1/accounts/import/codex).

\* The codex auth file the daemon finds: none, one that is not JSON, one
\* without access token, one whose id token names an email, and one that
\* only carries an account id.
AuthFileEmail == [exists |-> TRUE, json |-> TRUE, accessToken |-> "at3",
                  refreshToken |-> "rt3", idToken |-> "jwt-email", accountID |-> ""]
AuthFiles ==
    { [AuthFileEmail EXCEPT !.exists = FALSE],
      [AuthFileEmail EXCEPT !.json = FALSE],
      [AuthFileEmail EXCEPT !.accessToken = " "],
      AuthFileEmail,
      [AuthFileEmail EXCEPT !.idToken = "", !.accountID = "acct1"] }

\* codexauth.BuildCodexAccountID for the identities of the auth files.
BuildCodexAccountID(email, accountID, t) ==
    IF ~IsBlank(email) THEN "codex:u@x"
    ELSE IF ~IsBlank(accountID) THEN "codex:acct1"
    ELSE IF t <= ClockStep THEN "codex:19700101000030"
    ELSE "codex:19700101000100"

\* codexauth.LoadLocalAccount: the error ("" for none) and the account.
LoadLocalAccount(file, t) ==
    IF ~file.exists
    THEN [err |-> "codex auth file not found", id |-> "", secrets |-> EmptySecrets]
    ELSE IF ~file.json
    THEN [err |-> "invalid character", id |-> "", secrets |-> EmptySecrets]
    ELSE IF IsBlank(file.accessToken)
    THEN [err |-> "codex auth file does not contain access_token", id |-> "",
          secrets |-> EmptySecrets]
    ELSE LET who == decodeIdentityFromIDToken(file.idToken)
             accountID == IF ~IsBlank(file.accountID) THEN file.accountID
                          ELSE who.accountID
         IN [err |-> "",
             id |-> BuildCodexAccountID(who.email, accountID, t),
             secrets |-> [accessToken |-> file.accessToken,
                          refreshToken |-> file.refreshToken,
                          idToken |-> file.idToken,
                          accessExpiresAt |-> 0, refreshExpiresAt |-> 0]]

\* LocalAccount.Validate
Validate(acct) ==
    IF IsBlank(acct.id) THEN "id is required"
    ELSE IF IsBlank(acct.secrets.accessToken) THEN "access token is required"
    ELSE ""

\* containsAccount over the list ListAccounts returns.
containsAccount(st, accountID) == accountID \in DOMAIN st.accounts

\* The request bodies: none, one that is not JSON, an object without the
\* field, and the field set to true and to false.
ImportBodies == {"", "{", "{}", "true", "false"}

\* A refusal of every import of an id the registry holds.
conflictAlways(exists, body) == exists

\* Whether handleCodexImport refuses the import: the candidate exists and
\* overwrite_existing, true unless the body sets it, is false.
conflict(exists, body) == exists /\ body = "false"

\* APIServer.handleCodexImport
CodexImport(method, body, file, putOk, saveOk, delOk) ==
    LET local == LoadLocalAccount(file, now)
        invalid == IF local.err # "" THEN local.err ELSE Validate(local)
        exists == containsAccount(state, local.id)
        in == [id |-> local.id, provider |-> "codex", secrets |-> local.secrets]
        adds == method = "POST" /\ body # "{" /\ invalid = ""
                  /\ ~conflict(exists, body)
        nf == IF adds THEN Cardinality(addAccountFailures(in, putOk, saveOk, delOk))
              ELSE 0
        req == [NoRequest EXCEPT !.method = method, !.body = body]
    IN
    /\ nops < MaxOps
    /\ faults + nf <= MaxFaults
    /\ nops' = nops + 1
    /\ faults' = faults + nf
    /\ pre' = [state |-> state, secrets |-> secretStore]
    /\ IF method # "POST"
       THEN /\ http' = [req EXCEPT !.status = 405, !.error = "method not allowed"]
            /\ UNCHANGED <<state, secretStore>>
       ELSE IF body = "{"
       THEN /\ http' = [req EXCEPT !.status = 400, !.error = "unexpected EOF"]
            /\ UNCHANGED <<state, secretStore>>
       ELSE IF invalid # ""
       THEN /\ http' = [req EXCEPT !.status = IF file.exists THEN 400 ELSE 404,
                                  !.error = invalid]
            /\ UNCHANGED <<state, secretStore>>
       ELSE IF conflict(exists, body)
       THEN /\ http' = [req EXCEPT !.candidate = local.id, !.existed = exists,
                                  !.status = 409, !.error = "account already exists"]
            /\ UNCHANGED <<state, secretStore>>
       ELSE \E done \in { addAccount(state, secretStore, in, putOk, saveOk, delOk, now) } :
              /\ state' = done.state
              /\ secretStore' = done.store
              /\ http' = [req EXCEPT !.candidate = local.id, !.existed = exists,
                                    !.adds = 1, !.addErr = done.err,
                                    !.status = IF done.err # "" THEN 400 ELSE 200,
                                    !.error = done.err,
                                    !.action = IF done.err # "" THEN ""
                                               ELSE IF exists THEN "updated"
                                               ELSE "created"]
    /\ UNCHANGED <<now, ret, inflight, oauth, daemon, fileStore, probe, ui>>

NextImport ==
    \/ \E method \in {"POST", "GET"}, body \in ImportBodies, file \in AuthFiles,
          putOk \in BOOLEAN, saveOk \in BOOLEAN, delOk \in BOOLEAN :
            CodexImport(method, body, file, putOk, saveOk, delOk)
    \/ Tick

SpecImport == Init /\ [][NextImport]_vars

----------------------------------------------------------------------------
\* The daemon controller (cmd/switchlyd/main.go).  Each stretch of code that
\* holds daemonController.mu is one step.

\* strings.TrimSpace for the command lines.
TrimSpace(s) ==
    CASE s = " " -> ""
      [] s = " run.sh " -> "run.sh"
      [] OTHER -> s

\* What os.Executable returns when the daemon starts: an error, a binary
\* go run built (two spellings of its directory), and an installed binary.
\* goRun tells which of them are temporary builds.
Executables ==
    { [err |-> TRUE, goRun |-> FALSE, path |-> <<>>],
      [err |-> FALSE, goRun |-> TRUE,
       path |-> <<"/", "t", "/", "g", "o", "-", "b", "u", "i", "l", "d", "7", "/", "d">>],
      [err |-> FALSE, goRun |-> TRUE,
       path |-> <<"C", ":", "/", "G", "o", "-", "B", "u", "i", "l", "d", "/", "d">>],
      [err |-> FALSE, goRun |-> FALSE,
       path |-> <<"/", "b", "i", "n", "/", "g", "o", "/", "d">>] }

\* The command line newDaemonController builds from the executable's path,
\* the listen address and the public base URL.
SelfCommand == "\"/bin/go/d\" --addr 127.0.0.1:7777 --public-base-url http://localhost:7777"

\* newDaemonController: the default restart command.
defaultRestartCmd(restartCmd, exe) ==
    IF TrimSpace(restartCmd) # "" THEN restartCmd
    ELSE IF exe.err THEN ""
    ELSE IF Contains(ToLower(exe.path), <<"g", "o", "-", "b", "u", "i", "l", "d">>) THEN ""
    ELSE SelfCommand

\* What every step of the controller leaves alone.
notDaemon == <<state, secretStore, now, pre, ret, faults, inflight, oauth,
               http, fileStore, probe, ui>>

\* newDaemonController
NewDaemonController(restartCmd, exe) ==
    /\ ~daemon.built
    /\ daemon' = [daemon EXCEPT !.built = TRUE, !.restartCmd = restartCmd,
                                !.exe = exe,
                                !.defaultRestartCmd = defaultRestartCmd(restartCmd, exe)]
    /\ UNCHANGED <<nops, notDaemon>>

\* A request of POST /v1/daemon/shutdown or /v1/daemon/restart reaches the
\* controller.
DaemonRequest(c, op, startCmd) ==
    /\ daemon.built
    /\ daemon.calls[c].pc = "idle"
    /\ nops < MaxOps
    /\ nops' = nops + 1
    /\ daemon' = [daemon EXCEPT !.calls[c] =
         [IdleDaemonCall EXCEPT !.op = op, !.startCmd = startCmd,
                                !.pc = IF op = "Restart" THEN "restart" ELSE "enter"]]
    /\ UNCHANGED notDaemon

\* A command line taken from the controller's default only.
restartCommandDefaultOnly(startCmd, default) == TrimSpace(default)

\* The command line Restart starts the replacement from.
restartCommand(startCmd, default) ==
    IF TrimSpace(startCmd) = "" THEN TrimSpace(default) ELSE TrimSpace(startCmd)

\* daemonController.Restart up to its call of Shutdown.  startOk: the
\* replacement process could be started.
RestartSpawn(c, startOk) ==
    LET call == daemon.calls[c]
        cmdStr == restartCommand(call.startCmd, daemon.defaultRestartCmd)
    IN
    /\ call.pc = "restart"
    /\ daemon' = [daemon EXCEPT !.calls[c] =
         IF cmdStr = ""
         THEN [call EXCEPT !.pc = "idle", !.returned = TRUE,
                           !.err = "restart command is empty"]
         ELSE IF ~startOk
         THEN [call EXCEPT !.pc = "idle", !.returned = TRUE, !.cmd = cmdStr,
                           !.err = "failed to start replacement daemon"]
         ELSE [call EXCEPT !.pc = "enter", !.cmd = cmdStr, !.spawned = TRUE]]
    /\ UNCHANGED <<nops, notDaemon>>

\* A test of the flag that never finds it set.
alreadyShuttingDownNever(flag) == FALSE

\* The test of the flag at the head of Shutdown.
alreadyShuttingDown(flag) == flag

\* daemonController.Shutdown while it holds the mutex.
ShutdownEnter(c) ==
    LET call == daemon.calls[c] IN
    /\ call.pc = "enter"
    /\ daemon' =
         IF alreadyShuttingDown(daemon.shuttingDown)
         THEN [daemon EXCEPT !.shutdowns = @ + 1,
                             !.calls[c] = [call EXCEPT !.pc = "idle", !.entered = TRUE,
                                                       !.returned = TRUE, !.err = ""]]
         ELSE [daemon EXCEPT !.shuttingDown = TRUE,
                             !.calls[c] = [call EXCEPT !.pc = "go", !.entered = TRUE]]
    /\ UNCHANGED <<nops, notDaemon>>

\* daemonController.Shutdown after the mutex: it starts the goroutine that
\* stops the servers and returns.
ShutdownGo(c) ==
    LET call == daemon.calls[c] IN
    /\ call.pc = "go"
    /\ daemon' = [daemon EXCEPT !.goroutines = @ + 1, !.sleeping = @ + 1,
                                !.shutdowns = @ + 1,
                                !.calls[c] = [call EXCEPT !.pc = "idle",
                                                          !.returned = TRUE, !.err = ""]]
    /\ UNCHANGED <<nops, notDaemon>>

\* The goroutine of Shutdown, its sleep over: it stops every server.
StopServers ==
    /\ daemon.sleeping > 0
    /\ daemon' = [daemon EXCEPT !.sleeping = @ - 1,
                                !.stopCalls = [srv \in DOMAIN @ |-> @[srv] + 1]]
    /\ UNCHANGED <<nops, notDaemon>>

NextDaemon ==
    \/ \E restartCmd \in {"", " ", " run.sh "}, exe \in Executables :
            NewDaemonController(restartCmd, exe)
    \/ \E c \in Callers, startCmd \in {"", " ", "run.sh"} :
            DaemonRequest(c, "Restart", startCmd)
    \/ \E c \in Callers : DaemonRequest(c, "Shutdown", "")
    \/ \E c \in Callers, startOk \in BOOLEAN : RestartSpawn(c, startOk)
    \/ \E c \in Callers : ShutdownEnter(c)
    \/ \E c \in Callers : ShutdownGo(c)
    \/ StopServers

SpecDaemon == Init /\ [][NextDaemon]_vars

----------------------------------------------------------------------------
\* The file secret store of the non-Windows build (secrets.FileStore).  An
\* account id is written as the sequence of names its "/" separators cut it
\* into: <<"A">> is the id "A", <<"A.json", "x">> the id "A.json/x".

\* FileStore.path below baseDir: filepath.Join(baseDir, accountID+".json").
path(accountID) ==
    [i \in 1..Len(accountID) |->
        IF i = Len(accountID) THEN accountID[i] \o ".json" ELSE accountID[i]]

\* json.Marshal of model.AuthSecrets: the members in declaration order, the
\* empty strings tagged omitempty left out (omitempty does nothing for a
\* time.Time).
jsonMarshal(secrets) ==
    LET members == << <<"access_token", secrets.accessToken>>,
                      <<"refresh_token", secrets.refreshToken>>,
                      <<"id_token", secrets.idToken>>,
                      <<"access_expires_at", secrets.accessExpiresAt>>,
                      <<"refresh_expires_at", secrets.refreshExpiresAt>> >>
    IN SelectSeq(members, LAMBDA m : ~(m[1] \in {"refresh_token", "id_token"} /\ m[2] = ""))

\* json.Unmarshal into a zero model.AuthSecrets: a member that is absent
\* leaves its field zero; no bytes at all are not JSON.
jsonUnmarshal(data) ==
    LET member(key, zero) ==
            IF \E i \in 1..Len(data) : data[i][1] = key
               THEN data[CHOOSE i \in 1..Len(data) : data[i][1] = key][2]
               ELSE zero
    IN IF data = <<>>
          THEN [err |-> "unexpected end of JSON input", out |-> <<>>]
          ELSE [err |-> "",
                out |-> [accessToken |-> member("access_token", ""),
                         refreshToken |-> member("refresh_token", ""),
                         idToken |-> member("id_token", ""),
                         accessExpiresAt |-> member("access_expires_at", 0),
                         refreshExpiresAt |-> member("refresh_expires_at", 0)]]

\* What the kernel answers when it resolves path p: "" when p is a regular
\* file, ENOTDIR when a name before the last one is a regular file, ENOENT
\* otherwise (baseDir has no subdirectory).
resolve(files, p) ==
    IF p \in DOMAIN files THEN ""
    ELSE IF \E k \in 1..(Len(p) - 1) : SubSeq(p, 1, k) \in DOMAIN files THEN "ENOTDIR"
    ELSE "ENOENT"

\* The call is remembered with what the id was last given.
storeCall(op, accountID, secrets, files, err, out) ==
    [op |-> op, accountID |-> accountID,
     held |-> IF accountID \in DOMAIN fileStore.held
                 THEN fileStore.held[accountID].kind ELSE "none",
     secrets |-> IF accountID \in DOMAIN fileStore.held
                    THEN fileStore.held[accountID].secrets ELSE <<>>,
     before |-> fileStore.files, err |-> err, out |-> out]

notStore == <<state, secretStore, now, pre, ret, nops, faults, inflight, oauth,
              http, daemon, probe, ui>>

\* FileStore.Put.  os.WriteFile opens the file with O_CREATE and O_TRUNC and
\* writes the bytes: io is "open" when the open is refused, "write" when the
\* write fails after the file was truncated, "" when both succeed.
Put(accountID, secrets, io) ==
    LET p == path(accountID)
        found == resolve(fileStore.files, p)
        err == IF found = "ENOTDIR" THEN "ENOTDIR"
               ELSE IF Len(p) > 1 THEN "ENOENT"
               ELSE IF io = "open" THEN "EACCES"
               ELSE IF io = "write" THEN "ENOSPC"
               ELSE ""
        files == IF err = "" THEN MapPut(fileStore.files, p, jsonMarshal(secrets))
                 ELSE IF err = "ENOSPC" THEN MapPut(fileStore.files, p, <<>>)
                 ELSE fileStore.files
        held == IF err = "" THEN MapPut(fileStore.held, accountID,
                                        [kind |-> "put", secrets |-> secrets])
                ELSE IF err = "ENOSPC" THEN MapPut(fileStore.held, accountID,
                                                   [kind |-> "torn", secrets |-> <<>>])
                ELSE fileStore.held
    IN /\ fileStore' = [files |-> files, held |-> held,
                        last |-> storeCall("Put", accountID, secrets, files, err, <<>>)]
       /\ UNCHANGED notStore

\* FileStore.Get: os.ReadFile, then json.Unmarshal.
Get(accountID) ==
    LET p == path(accountID)
        found == resolve(fileStore.files, p)
        decoded == IF found = "" THEN jsonUnmarshal(fileStore.files[p])
                   ELSE [err |-> found, out |-> <<>>]
    IN /\ fileStore' = [fileStore EXCEPT
                           !.last = storeCall("Get", accountID, <<>>, fileStore.files,
                                              decoded.err, decoded.out)]
       /\ UNCHANGED notStore

\* FileStore.Delete: os.Remove, whose error is dropped when it is
\* os.ErrNotExist (of the kernel's answers only ENOENT is).
Delete(accountID, removeOk) ==
    LET p == path(accountID)
        found == resolve(fileStore.files, p)
        removed == IF found # "" THEN found
                   ELSE IF removeOk THEN "" ELSE "EACCES"
        err == IF removed = "ENOENT" THEN "" ELSE removed
        files == IF removed = "" THEN MapDelete(fileStore.files, p) ELSE fileStore.files
        held == IF removed = "" THEN MapPut(fileStore.held, accountID,
                                            [kind |-> "deleted", secrets |-> <<>>])
                ELSE fileStore.held
    IN /\ fileStore' = [files |-> files, held |-> held,
                        last |-> storeCall("Delete", accountID, <<>>, files, err, <<>>)]
       /\ UNCHANGED notStore

\* The ids the store is called with, and the secrets it is given.
StoreIDs == { <<"A">>, <<"B">>, <<"A.json", "x">> }

NextStore ==
    \/ \E accountID \in StoreIDs, in \in AddInputs, io \in {"", "open", "write"} :
            Put(accountID, in.secrets, io)
    \/ \E accountID \in StoreIDs : Get(accountID)
    \/ \E accountID \in StoreIDs, removeOk \in BOOLEAN : Delete(accountID, removeOk)

SpecStore == Init /\ [][NextStore]_vars

----------------------------------------------------------------------------
\* shouldSwitch called on its own, once, as a case of TestShouldSwitch calls
\* it.

\* The messages it is given: pattern k as it is listed, in upper case, inside
\* a longer message, and without its last character; and three messages
\* that hold no pattern (k is then 0).
ProbeShapes == {"lower", "upper", "inside", "cut"}
ProbeMessage(k, shape) ==
    LET p == patterns[k]
        upper(c) == IF \E i \in 1..26 : LowerChars[i] = c
                       THEN UpperChars[CHOOSE i \in 1..26 : LowerChars[i] = c]
                       ELSE c
    IN CASE shape = "lower" -> p
         [] shape = "upper" -> [i \in 1..Len(p) |-> upper(p[i])]
         [] shape = "inside" -> <<"E", "r", "r", ":", " ">> \o p \o <<".", " ", "R", "e", "t", "r", "y">>
         [] shape = "cut" -> SubSeq(p, 1, Len(p) - 1)
         [] shape = "ok" -> MsgOk
         [] shape = "empty" -> <<>>
         [] shape = "other" -> <<"b", "a", "d", " ", "r", "e", "q", "u", "e", "s", "t">>

ShouldSwitchProbe(statusCode, k, shape) ==
    LET message == ProbeMessage(IF k = 0 THEN 1 ELSE k, shape)
    IN /\ ~probe.done
       /\ (k = 0) <=> (shape \notin ProbeShapes)
       /\ probe' = [done |-> TRUE, statusCode |-> statusCode, message |-> message,
                    shape |-> shape, hit |-> shape \in {"lower", "upper", "inside"},
                    result |-> shouldSwitch(statusCode, message)]
       /\ UNCHANGED <<state, secretStore, now, pre, ret, nops, faults, inflight, oauth,
                      http, daemon, fileStore, ui>>

NextShould ==
    \E statusCode \in {0, 200, 400, 401, 429, 500, 502, 503},
       k \in 0..Len(patterns), shape \in ProbeShapes \cup {"ok", "empty", "other"} :
        ShouldSwitchProbe(statusCode, k, shape)

SpecShould == Init /\ [][NextShould]_vars

----------------------------------------------------------------------------
\* orderedCandidates called on its own, once, as TestOrderedCandidatesFillFirst
\* calls it.

notProbe == <<state, secretStore, now, pre, ret, nops, faults, inflight, oauth,
              http, daemon, fileStore, ui>>

\* The used-percents of an account's session and weekly windows.
UsedPairs == { <<0, 0>>, <<20, 10>>, <<10, 20>>, <<70, 10>> }

\* A registry holding the accounts ids with the used-percents used.
OrderRegistry(ids, used, strategy, activeID) ==
    [active |-> activeID, strategy |-> strategy,
     accounts |-> [id \in ids |->
                     [SeedAccount("ready", 0, "", used[id][1])
                         EXCEPT !.quota.weekly = used[id][2]]]]

OrderProbe(st, activeID) ==
    /\ ~probe.done
    /\ probe' = [done |-> TRUE, st |-> st, activeID |-> activeID,
                 out |-> orderedCandidates(st, activeID)]
    /\ UNCHANGED notProbe

NextOrder ==
    \E ids \in SUBSET AccountIDs, strategy \in {"round-robin", "fill-first"},
       activeID \in AccountIDs \cup {""} :
        \E used \in [ids -> UsedPairs] :
            OrderProbe(OrderRegistry(ids, used, strategy, activeID), activeID)

SpecOrder == Init /\ [][NextOrder]_vars

----------------------------------------------------------------------------
\* The quota fetcher and the merge of its snapshot called on their own: one
\* fetch, then one merge of what was fetched into an account's quota.

\* The windows of a usage response: none; used_percent 0, 2.1 or 100 with no
\* reset time, a reset 24h ahead or a reset later than that; and a used
\* percent that rounds to 0 with a reset time that is not positive.
ApiWindows ==
    {NoWindow, [present |-> TRUE, tenths |-> 4, resetsAt |-> 0 - 1]}
    \cup [present : {TRUE}, tenths : {0, 21, 1000},
          resetsAt : {0, now + Day, now + Day + 1}]

FetchProbe(resp) ==
    /\ ~probe.done
    /\ probe' = [done |-> TRUE, merged |-> FALSE, resp |-> resp, at |-> now,
                 snap |-> FetchCodexSnapshot("at1", resp, now),
                 current |-> ZeroQuota, out |-> ZeroQuota]
    /\ UNCHANGED notProbe

MergeProbe(current) ==
    /\ probe.done /\ ~probe.merged /\ probe.snap.err = ""
    /\ probe' = [probe EXCEPT !.merged = TRUE, !.current = current,
                              !.out = mergeQuotaSnapshot(current, probe.snap, now)]
    /\ UNCHANGED notProbe

NextQuota ==
    \/ \E primary \in ApiWindows, secondary \in ApiWindows, limitReached \in BOOLEAN :
            FetchProbe([UsageBoth EXCEPT !.primary = primary, !.secondary = secondary,
                                         !.limitReached = limitReached])
    \/ FetchProbe(UsageDown)
    \/ \E session \in {0, 20, 100}, weekly \in {0, 35, 150}, limitReached \in BOOLEAN :
            MergeProbe([session |-> session, weekly |-> weekly,
                        limitReached |-> limitReached, lastUpdated |-> ClockStep])
    \/ Tick /\ probe.done /\ ~probe.merged

SpecQuota == Init /\ [][NextQuota]_vars

----------------------------------------------------------------------------
\* ensureFreshToken called on its own, once, on a secret store that holds
\* the account's secret.

\* The stored secrets: the access token without expiry, expired, expiring in
\* 30 seconds and in 31; the refresh token missing, blank or there; its
\* expiry unknown, past or now.
FreshSecrets ==
    [accessToken : {"at0"}, refreshToken : {"", " ", "rt0"}, idToken : {"id0"},
     accessExpiresAt : {0, now - 1, now + FreshSkew, now + FreshSkew + 1},
     refreshExpiresAt : {0, now - 1, now}]

\* The ways Get, the token endpoint and Put can go; an endpoint that names
\* a lifetime and a new id token is among them.
FreshEnvs ==
    Envs \cup {[EnvOk EXCEPT !.resp = [RespOk EXCEPT !.expiresIn = 120, !.idToken = "id2"]]}

EnsureProbe(provider, secret, env) ==
    /\ ~probe.done
    /\ probe' = [done |-> TRUE, provider |-> provider, secret |-> secret,
                 env |-> env, at |-> now,
                 out |-> ensureFreshToken("A", [SeedAccount("ready", 0, "", 0)
                                                 EXCEPT !.provider = provider],
                                          [id \in {"A"} |-> secret], env, now)]
    /\ UNCHANGED notProbe

NextFresh ==
    \/ \E provider \in {"codex", "CODEX", "other"}, secret \in FreshSecrets,
          env \in FreshEnvs : EnsureProbe(provider, secret, env)
    \/ Tick /\ ~probe.done

SpecFresh == Init /\ [][NextFresh]_vars

----------------------------------------------------------------------------
\* The quota auto-refresh of the UI (useQuotaSync).  Time is counted in
\* minutes.

\* The cap of the backoff, in minutes.
BackoffCapMinutes == 15

Min(a, b) == IF a < b THEN a ELSE b

\* getCadenceIntervalMs, in minutes; 0 stands for null (no timer).
getCadenceInterval(cadence) ==
    CASE cadence = "manual" -> 0
      [] cadence = "1min" -> 1
      [] cadence = "2min" -> 2
      [] cadence = "5min" -> 5
      [] cadence = "10min" -> 10
      [] cadence = "15min" -> 15

Cadences == {"manual", "1min", "2min"}

notUi == <<state, secretStore, now, pre, ret, nops, faults, inflight, oauth,
           http, daemon, fileStore, probe>>

\* resetQuotaSyncBackoff
resetQuotaSyncBackoff(u) == [u EXCEPT !.failureCount = 0, !.backoffUntil = 0]

\* A backoff that doubles without a cap.
applyQuotaSyncBackoffUncapped(u) ==
    LET n == u.failureCount + 1
    IN [u EXCEPT !.failureCount = n, !.backoffUntil = u.clock + 2 ^ (n - 1)]

\* applyQuotaSyncBackoff
applyQuotaSyncBackoff(u) ==
    LET n == u.failureCount + 1
        backoffMinutes == Min(BackoffCapMinutes, 2 ^ (n - 1))
    IN [u EXCEPT !.failureCount = n, !.backoffUntil = u.clock + backoffMinutes]

\* The user picks a refresh cadence: the effect is run again, the old
\* interval timer is cleared and a new one is set.
setQuotaRefreshCadence(cadence) ==
    /\ cadence # ui.cadence
    /\ ui' = [ui EXCEPT !.cadence = cadence,
                        !.nextFire = IF getCadenceInterval(cadence) = 0 THEN 0
                                     ELSE ui.clock + getCadenceInterval(cadence)]
    /\ UNCHANGED notUi

\* Time passes, up to the next firing of the timer.
UiTick ==
    /\ ui.clock < MaxUiMinutes
    /\ ui.nextFire = 0 \/ ui.clock < ui.nextFire
    /\ ui' = [ui EXCEPT !.clock = @ + 1]
    /\ UNCHANGED notUi

\* runQuotaSync and runQuotaSyncAll up to their request: nothing is done
\* while another sync is in flight.
SyncStart(kind) ==
    /\ ui.inFlight = ""
    /\ ui' = [ui EXCEPT !.inFlight = kind]
    /\ UNCHANGED notUi

\* The callback of the interval timer.
TimerFires ==
    /\ ui.nextFire # 0 /\ ui.clock = ui.nextFire
    /\ LET starts == ~(ui.clock < ui.backoffUntil) /\ ui.inFlight = ""
           fired == [ui EXCEPT !.nextFire = ui.clock + getCadenceInterval(ui.cadence),
                               !.last = [kind |-> "timer", outcome |-> "",
                                         started |-> starts]]
       IN ui' = IF starts THEN [fired EXCEPT !.inFlight = "sync-all"] ELSE fired
    /\ UNCHANGED notUi

\* The outcomes of a sync: the request throws; the sync-all answers with
\* failed accounts; the request succeeds for all accounts and the reload of
\* the status throws; the request and the reload succeed.
SyncOutcomes(kind) ==
    IF kind = "sync-all" THEN {"threw", "partial", "reload-threw", "ok"}
    ELSE {"threw", "reload-threw", "ok"}

\* runQuotaSync and runQuotaSyncAll from the answer of their request on.
SyncFinish(outcome) ==
    /\ ui.inFlight # ""
    /\ outcome \in SyncOutcomes(ui.inFlight)
    /\ outcome # "ok" => ui.unsuccessful < MaxFailures
    /\ LET after == IF outcome = "ok" THEN resetQuotaSyncBackoff(ui)
                    ELSE IF outcome = "partial" THEN ui
                    ELSE applyQuotaSyncBackoff(ui)
       IN ui' = [after EXCEPT !.inFlight = "",
                              !.unsuccessful = IF outcome = "ok" THEN 0 ELSE @ + 1,
                              !.last = [kind |-> ui.inFlight, outcome |-> outcome,
                                        started |-> FALSE]]
    /\ UNCHANGED notUi

NextUi ==
    \/ \E cadence \in Cadences : setQuotaRefreshCadence(cadence)
    \/ UiTick
    \/ \E kind \in {"sync", "sync-all"} : SyncStart(kind)
    \/ TimerFires
    \/ \E outcome \in {"threw", "partial", "reload-threw", "ok"} : SyncFinish(outcome)

SpecUi == Init /\ [][NextUi]_vars

----------------------------------------------------------------------------
\* Rotation: a registry of three or four ready accounts whose tokens never
\* expire, under round-robin, and switch-worthy errors reported again and
\* again.
RotateStates ==
    { [active |-> a, strategy |-> "round-robin",
       accounts |-> [id \in ids |-> SeedAccount("ready", 0, "", used[id])]] :
        a \in {"A", "B", "C"},
        ids \in { {"A", "B", "C"}, {"A", "B", "C", "D"} },
        used \in [{"A", "B", "C", "D"} -> {0, 50}] }

InitRotate ==
    /\ state \in RotateStates
    /\ secretStore = [id \in DOMAIN state.accounts |-> SeedSecret(0)]
    /\ now = ClockStep
    /\ pre = [state |-> state, secrets |-> secretStore]
    /\ ret = NoRet
    /\ nops = 0
    /\ faults = 0
    /\ mu = ""
    /\ calls = [c \in Callers |-> IdleCall]
    /\ hist = <<state>>
    /\ sessions = NoSessions
    /\ callbacks = [c \in Callers |-> IdleCallback]
    /\ polled = NoPoll
    /\ http = NoRequest
    /\ daemon = NoDaemon
    /\ fileStore = NoFiles
    /\ probe = NoProbe
    /\ ui = NoUi

\* Manager.HandleQuotaError called once more with a switch-worthy error, the
\* stores answering; the calls are not counted.
HandleQuotaErrorAgain(statusCode, errorMessage) ==
    LET activeID == state.active
        order == orderedCandidates(state, activeID)
        env == [id \in (DOMAIN state.accounts) \ {activeID} |-> EnvOk]
        base == [NoRet EXCEPT !.op = "HandleQuotaError", !.statusCode = statusCode,
                              !.message = errorMessage, !.valid = TRUE, !.env = env,
                              !.at = now, !.saves = 1, !.savedOk = TRUE,
                              !.from = activeID]
    IN
    /\ shouldSwitch(statusCode, errorMessage)
    /\ loadedStateError(state) = ""
    /\ \E scan \in { Scan(order, 1, state, secretStore, env, now) } :
         /\ state' = scan.st
         /\ secretStore' = scan.store
         /\ ret' = IF scan.to # ""
                   THEN [base EXCEPT !.switched = TRUE, !.to = scan.to,
                                     !.reason = "quota-exceeded",
                                     !.puts = scan.puts, !.refreshes = scan.refreshes]
                   ELSE [base EXCEPT !.reason = "no-available-account"]
    /\ pre' = [state |-> state, secrets |-> secretStore]
    /\ UNCHANGED <<now, nops, faults, inflight, outside>>

SwitchWorthyErrors == { <<429, <<>>>>, <<400, MsgRateLimit>> }

Reported == \E e \in SwitchWorthyErrors : HandleQuotaErrorAgain(e[1], e[2])

NextRotate ==
    \/ Reported
    \/ Tick

\* Switch-worthy errors keep being reported.
SpecRotate == InitRotate /\ [][NextRotate]_vars /\ WF_vars(Reported)

----------------------------------------------------------------------------
\* The local import next to other requests.  handleCodexImport calls
\* Manager.ListAccounts, which loads the registry without the mutex, and
\* then Manager.AddAccount, which takes it; arg is the body and the auth
\* file of the request.

\* The requests made together: imports of the two auth files that name an
\* account, with overwrite_existing false and left out, and POST
\* /v1/accounts for the ids these files yield.
RaceOps ==
    { <<"CodexImport", <<body, file>>>> :
        body \in {"false", "{}"},
        file \in { AuthFileEmail,
                   [AuthFileEmail EXCEPT !.idToken = "", !.accountID = "acct1"] } }
    \cup
    { <<"AddAccount", [id |-> id, provider |-> "codex",
                       secrets |-> [accessToken |-> "at9", refreshToken |-> "rt9",
                                    idToken |-> "", accessExpiresAt |-> 0,
                                    refreshExpiresAt |-> 0]]>> :
        id \in {"codex:u@x", "codex:acct1"} }

\* handleCodexImport up to its existence check: the auth file is read,
\* ListAccounts loads the registry, and the import is refused when the
\* candidate exists and must not be overwritten.
ImportList(c) ==
    LET call == calls[c]
        local == LoadLocalAccount(call.arg[2], now)
        exists == containsAccount(state, local.id)
    IN
    /\ call.pc = "called"
    /\ call.op = "CodexImport"
    /\ calls' = [calls EXCEPT ![c] =
                    IF conflict(exists, call.arg[1])
                    THEN [call EXCEPT !.pc = "done", !.loaded = state,
                                      !.loadedAt = Len(hist), !.at = now,
                                      !.out.err = "account already exists"]
                    ELSE [call EXCEPT !.pc = "listed", !.loaded = state,
                                      !.loadedAt = Len(hist), !.at = now]]
    /\ UNCHANGED <<state, secretStore, now, pre, ret, nops, faults, outside, mu, hist>>

\* handleCodexImport from its call of Manager.AddAccount on: the account
\* read from the auth file is added under the mutex, and the action reported
\* is the one the existence check found.
ImportAdd(c) ==
    LET call == calls[c]
        local == LoadLocalAccount(call.arg[2], call.at)
        in == [id |-> local.id, provider |-> "codex", secrets |-> local.secrets]
    IN
    /\ call.pc = "listed"
    /\ muFree(mu)
    /\ \E done \in { addAccount(state, secretStore, in, TRUE, TRUE, TRUE, now) } :
         /\ state' = done.state
         /\ secretStore' = done.store
         /\ hist' = Append(hist, done.state)
         /\ calls' = [calls EXCEPT ![c] =
                         [call EXCEPT !.pc = "done", !.next = done.state,
                                      !.saves = TRUE, !.secrets = secretStore,
                                      !.savedAs = Len(hist) + 1,
                                      !.out.reason =
                                          IF containsAccount(call.loaded, local.id)
                                          THEN "updated" ELSE "created"]]
    /\ UNCHANGED <<now, pre, ret, nops, faults, outside, mu>>

NextImportRace ==
    \/ \E c \in Callers, o \in RaceOps : Request(c, o[1], o[2])
    \/ \E c \in Callers : ImportList(c)
    \/ \E c \in Callers : ImportAdd(c)
    \/ \E c \in Callers : Enter(c)
    \/ \E c \in Callers : Decide(c)
    \/ \E c \in Callers : Leave(c)
    \/ Tick

SpecImportRace == Init /\ [][NextImportRace]_vars

----------------------------------------------------------------------------
\* Properties.

Unusable(acct) == acct.status \in {"need_reauth", "disabled"}

\* C1: when the secret store's Put fails inside AddAccount, the call returns
\* an error tagged ErrPersistSecrets, Save is not called, and the registry is
\* exactly as before the call.
C1_PutFailureLeavesRegistry ==
    (ret.op = "AddAccount" /\ "Put" \in ret.failed) =>
        /\ ret.err = "ErrPersistSecrets"
        /\ ret.saves = 0
        /\ state = pre.state

C1_Witness ==
    /\ ret.op = "AddAccount"
    /\ "Put" \in ret.failed
    /\ ~HasAccount(state, ret.id)
    /\ state.active = ""

\* C2: when AddAccount's Put succeeds and its Save fails, the call returns an
\* error tagged ErrPersistState, it issued exactly one Put and exactly one
\* Delete, and the registry is as before: the new account is not in it.
C2_SaveFailureRollsBack ==
    (ret.op = "AddAccount" /\ "Save" \in ret.failed) =>
        /\ ret.err = "ErrPersistState"
        /\ ret.puts = 1
        /\ ret.deletes = 1
        /\ state = pre.state
        /\ ~HasAccount(pre.state, ret.id) => ~HasAccount(state, ret.id)

C2_Witness ==
    /\ ret.op = "AddAccount"
    /\ "Save" \in ret.failed
    /\ ret.deletes = 1
    /\ ~HasAccount(state, ret.id)

\* C3: in every reachable state, every account id of the registry has a
\* secret record in the secret store.
C3_EveryAccountHasSecret ==
    \A id \in DOMAIN state.accounts : SecretHas(secretStore, id)

\* C4: after every Save that returned success, every account of the registry
\* has a secret record whose access-expires-at equals the account's.
C4_SavedExpiryMirrorsSecret ==
    ret.savedOk =>
        \A id \in DOMAIN state.accounts :
            /\ SecretHas(secretStore, id)
            /\ secretStore[id].accessExpiresAt = state.accounts[id].accessExpiresAt

\* C5: if the credential applier's Apply fails for the target of
\* SetActiveAccount, the call returns an error and the registry is unchanged.
C5_ApplyFailureKeepsRegistry ==
    ( /\ ret.op = "SetActiveAccount"
      /\ ret.valid
      /\ SecretHas(pre.secrets, ret.id)
      /\ FileApplierApply(pre.state.accounts[ret.id], pre.secrets[ret.id], ret.applyOk) # "" )
    => (ret.err # "" /\ state = pre.state)

\* C6: whenever SetActiveAccount(X) succeeds or HandleQuotaError switches to
\* X, Apply was invoked with account X during the call and X's
\* last_applied_at is set in the registry.
C6_SwitchAppliesCredentials ==
    ( \/ (ret.op = "SetActiveAccount" /\ ret.err = "")
      \/ (ret.op = "HandleQuotaError" /\ ret.switched) )
    => /\ HasAccount(state, state.active)
       /\ ret.applied = <<state.active>>
       /\ state.accounts[state.active].lastAppliedAt # 0

\* C7: SetActiveAccount(id) fails, without a Save and with the registry and
\* its active id unchanged, when id is not in the registry or the account's
\* status is need_reauth or disabled.
C7_SetActiveRejects ==
    ( /\ ret.op = "SetActiveAccount"
      /\ \/ ~HasAccount(pre.state, ret.id)
         \/ Unusable(pre.state.accounts[ret.id]) )
    => /\ ret.err # ""
       /\ ret.saves = 0
       /\ state = pre.state

C7_Witness ==
    /\ ret.op = "SetActiveAccount"
    /\ HasAccount(pre.state, ret.id)
    /\ pre.state.accounts[ret.id].status = "need_reauth"
    /\ pre.state.active # ret.id
    /\ ret.err # ""

\* C8: whenever an operation sets the active-account id to X, X is an account
\* of the registry whose status is then neither disabled nor need_reauth; and
\* a non-empty active-account id always names an account of the registry.
C8_ActiveIsUsableWhenSet ==
    /\ ( \/ state.active # pre.state.active
         \/ (ret.op = "SetActiveAccount" /\ ret.err = "")
         \/ (ret.op = "HandleQuotaError" /\ ret.switched) )
       => /\ HasAccount(state, state.active)
          /\ ~Unusable(state.accounts[state.active])
    /\ state.active # "" => HasAccount(state, state.active)

C8_Witness ==
    /\ ret.op = "HandleQuotaError"
    /\ ret.switched
    /\ pre.state.accounts[ret.to].status = "need_reauth"
    /\ state.active = ret.to

\* C9: whenever HandleQuotaError returns switched=true with to=X, the
\* registry's active_account_id is X when the call returns and X is ready.
C9_SwitchedMeansActive ==
    (ret.op = "HandleQuotaError" /\ ret.switched) =>
        /\ ret.err = ""
        /\ HasAccount(state, ret.to)
        /\ state.active = ret.to
        /\ state.accounts[ret.to].status = "ready"

C9_Witness ==
    /\ ret.op = "HandleQuotaError"
    /\ ret.switched
    /\ ret.from = pre.state.active
    /\ ret.to # ret.from
    /\ state.active = ret.to

\* The switch-worthy errors: status 429, 500 or 503, or a message that
\* contains one of the known patterns, letter case ignored.
SwitchWorthy(statusCode, message) ==
    \/ statusCode \in {429, 500, 503}
    \/ \E k \in 1..Len(patterns) : Contains(ToLower(message), patterns[k])

\* C10: HandleQuotaError with an error that is not switch-worthy returns
\* switched=false with reason not-switchable-error and no error, without a
\* Save, a secret write or a token refresh: the registry and the secrets are
\* unchanged.
C10_NotSwitchableIsNoOp ==
    (ret.op = "HandleQuotaError" /\ ~SwitchWorthy(ret.statusCode, ret.message)) =>
        /\ ~ret.switched
        /\ ret.reason = "not-switchable-error"
        /\ ret.err = ""
        /\ ret.saves = 0 /\ ret.puts = 0 /\ ret.refreshes = 0
        /\ state = pre.state
        /\ secretStore = pre.secrets

C10_Witness ==
    /\ ret.op = "HandleQuotaError"
    /\ ret.reason = "not-switchable-error"
    /\ state.active # ""
    /\ \E id \in (DOMAIN state.accounts) \ {state.active} :
           state.accounts[id].status = "ready"

\* The last call was a HandleQuotaError for a switch-worthy error.
SwitchWorthyCall ==
    /\ ret.op = "HandleQuotaError"
    /\ SwitchWorthy(ret.statusCode, ret.message)

\* The last call stored nothing: no Put, no Save, registry and secrets as
\* they were before it.
NothingPersisted ==
    /\ ret.puts = 0 /\ ret.saves = 0 /\ ret.deletes = 0
    /\ state = pre.state
    /\ secretStore = pre.secrets

\* C11 as stated: on a switch-worthy error HandleQuotaError fails with "no
\* active account" when no active id is set and with "no accounts
\* configured" when the registry is empty, and persists nothing.  An empty
\* registry with no active id gets the first error, not the second.
C11_EmptyRegistrySaysNoAccounts ==
    SwitchWorthyCall =>
        /\ pre.state.active = "" => ret.err = "no active account configured"
        /\ DOMAIN pre.state.accounts = {} => ret.err = "no accounts configured"
        /\ (pre.state.active = "" \/ DOMAIN pre.state.accounts = {}) => NothingPersisted

\* C11 amended: on a switch-worthy error HandleQuotaError fails with "no
\* active account configured" whenever no active id is set, an empty registry
\* included; "no accounts configured" is returned exactly when an active id is
\* set and the registry is empty; in both cases nothing is persisted.
C11_ActiveIdCheckedFirst ==
    SwitchWorthyCall =>
        /\ pre.state.active = "" =>
              ret.err = "no active account configured" /\ NothingPersisted
        /\ ret.err = "no accounts configured" <=>
              (pre.state.active # "" /\ DOMAIN pre.state.accounts = {})
        /\ ret.err = "no accounts configured" => NothingPersisted

\* A switch-worthy error reported while the registry is empty.
C11_Witness ==
    /\ SwitchWorthyCall
    /\ DOMAIN pre.state.accounts = {}
    /\ pre.state.active = ""
    /\ ret.err = "no active account configured"
    /\ NothingPersisted

\* The candidates of the last scan in the order they were tried, and what
\* ensureFreshToken answers for one of them at the time of the scan.
ScanOrder == orderedCandidates(pre.state, pre.state.active)

ScanOutcome(id) ==
    ensureFreshToken(id, pre.state.accounts[id], pre.secrets, ret.env[id], ret.at)

ScanUsable(id) ==
    /\ pre.state.accounts[id].status # "disabled"
    /\ ScanOutcome(id).err = ""

C12_WitnessLater ==
    /\ ret.op = "HandleQuotaError" /\ ret.switched
    /\ Len(ScanOrder) >= 2
    /\ ret.to = ScanOrder[1]

\* The last call was a HandleQuotaError that scanned and found no candidate
\* usable: each is disabled or failed ensureFreshToken, or there is none.
ScanFoundNone ==
    /\ SwitchWorthyCall
    /\ loadedStateError(pre.state) = ""
    /\ \A i \in 1..Len(ScanOrder) : ~ScanUsable(ScanOrder[i])

\* The need_reauth marks of the last scan are in the registry.
ScanMarksPersisted ==
    \A i \in 1..Len(ScanOrder) :
        LET id == ScanOrder[i]
        IN pre.state.accounts[id].status # "disabled" =>
              /\ state.accounts[id].status = "need_reauth"
              /\ state.accounts[id].lastError = ScanOutcome(id).err

\* C13 as stated: when no candidate is usable HandleQuotaError returns
\* switched=false with reason no-available-account and no error, leaves the
\* active id unchanged and persists the need_reauth marks of the scan.  A
\* failing Save at the end of the scan is returned as the call's error.
C13_ExhaustedNeverFails ==
    ScanFoundNone =>
        /\ ~ret.switched
        /\ ret.reason = "no-available-account"
        /\ ret.err = ""
        /\ state.active = pre.state.active
        /\ ScanMarksPersisted

\* C13 amended: when no candidate is usable and the Save that ends the scan
\* succeeds, HandleQuotaError returns switched=false with reason
\* no-available-account and no error, leaves the active id unchanged and
\* persists the need_reauth marks; when that Save fails its error is returned
\* and the registry is unchanged; the failure of a candidate's
\* ensureFreshToken is never the call's error.
C13_ExhaustedUnlessSaveFails ==
    ScanFoundNone =>
        /\ state.active = pre.state.active
        /\ ~ret.switched
        /\ ret.err \in {"", "save failed"}
        /\ ret.err = "" <=> ret.savedOk
        /\ ret.savedOk => (ret.reason = "no-available-account" /\ ScanMarksPersisted)
        /\ ~ret.savedOk => state = pre.state

\* A scan in which the only candidates left failed ensureFreshToken, saved.
C13_Witness ==
    /\ ScanFoundNone
    /\ ret.savedOk
    /\ ret.reason = "no-available-account"
    /\ \E i \in 1..Len(ScanOrder) :
          /\ pre.state.accounts[ScanOrder[i]].status = "ready"
          /\ ScanOutcome(ScanOrder[i]).err # ""
          /\ state.accounts[ScanOrder[i]].status = "need_reauth"

\* C14: a successful AddAccount makes the added account the active account
\* exactly when no active id was set before the call; with an active id set
\* it leaves the active id unchanged.
C14_AddActivatesOnlyWhenNoneActive ==
    (ret.op = "AddAccount" /\ ret.err = "") =>
        /\ pre.state.active = "" => state.active = ret.id
        /\ pre.state.active # "" => state.active = pre.state.active
        /\ state.active # pre.state.active <=> pre.state.active = ""

\* A successful AddAccount of a second account while another one is active.
C14_Witness ==
    /\ ret.op = "AddAccount" /\ ret.err = ""
    /\ pre.state.active # ""
    /\ pre.state.active # ret.id
    /\ ~HasAccount(pre.state, ret.id)
    /\ HasAccount(state, ret.id)
    /\ state.active = pre.state.active

\* A successful AddAccount into a registry with no active id.
C14_WitnessFirst ==
    /\ ret.op = "AddAccount" /\ ret.err = ""
    /\ pre.state.active = ""
    /\ state.active = ret.id

\* The snapshot Status returns when it sees registry h alone.
StatusOf(h) ==
    [NoOut EXCEPT !.active = h.active, !.strategy = h.strategy,
                  !.accounts = ListAccountsOf(h)]

\* C15: every snapshot returned by Status and every list returned by
\* ListAccounts equals one registry of the serial order of mutations: active
\* id, strategy and accounts are never taken from two different registries,
\* whatever mutating operations run at the same time.
C15_SnapshotIsOneRegistry ==
    \A c \in Callers :
        calls[c].pc = "done" =>
            /\ calls[c].op = "Status" =>
                  \E i \in 1..Len(hist) : calls[c].out = StatusOf(hist[i])
            /\ calls[c].op = "ListAccounts" =>
                  \E i \in 1..Len(hist) : calls[c].out.accounts = ListAccountsOf(hist[i])

\* Two HandleQuotaError calls that have both returned a switch, c1 first.
BothSwitched(c1, c2) ==
    /\ c1 # c2
    /\ calls[c1].op = "HandleQuotaError" /\ calls[c1].pc = "done"
    /\ calls[c2].op = "HandleQuotaError" /\ calls[c2].pc = "done"
    /\ calls[c1].out.switched /\ calls[c2].out.switched
    /\ calls[c1].savedAs < calls[c2].savedAs

\* C16: two HandleQuotaError calls running at the same time never both
\* decide on the same registry: one's Load, scan and Save are over before the
\* other's Load, and when both switch the second switches from the account
\* the first switched to.
C16_SwitchesAreSerialized ==
    \A c1 \in Callers, c2 \in Callers :
        /\ (c1 # c2 /\ calls[c1].op = "HandleQuotaError"
                    /\ calls[c2].op = "HandleQuotaError")
              => ~(calls[c1].pc \in {"loaded", "decided"}
                      /\ calls[c2].pc \in {"loaded", "decided"})
        /\ BothSwitched(c1, c2) =>
              /\ calls[c2].loadedAt = calls[c1].savedAs
              /\ calls[c2].loaded = hist[calls[c1].savedAs]
              /\ calls[c2].out.from = calls[c1].out.to

\* Two error reports, the second made before the first had saved, each
\* ending in a switch.
C16_Witness ==
    \E c1 \in Callers, c2 \in Callers :
        /\ BothSwitched(c1, c2)
        /\ calls[c2].calledAt < calls[c1].savedAs
        /\ calls[c2].out.from = calls[c1].out.to
        /\ state.active = calls[c2].out.to

\* What the scan of caller c's HandleQuotaError gives when nothing stops its
\* token refreshes.
UncancelledScan(c) ==
    LET st == calls[c].loaded
    IN Scan(orderedCandidates(st, st.active), 1, st, calls[c].secrets,
            [id \in (DOMAIN st.accounts) \ {st.active} |-> EnvOk], calls[c].at)

\* Caller c's error report scanned after its request had been cancelled.
ScannedAfterCancel(c) ==
    /\ calls[c].op = "HandleQuotaError"
    /\ calls[c].pc = "done"
    /\ calls[c].cancelledAtScan
    /\ loadedStateError(calls[c].loaded) = ""

\* C17: HandleQuotaError called by the handler of POST /v1/switch/on-error
\* runs with a context detached from the request: when the request is
\* cancelled after the call has begun, the scan still runs to its end and
\* the registry it yields, new active id and status updates, is persisted.
C17_CancelDoesNotStopSwitch ==
    \A c \in Callers :
        ScannedAfterCancel(c) =>
            /\ calls[c].out.err = ""
            /\ calls[c].out.to = UncancelledScan(c).to
            /\ calls[c].out.switched <=> UncancelledScan(c).to # ""
            /\ calls[c].savedAs \in 1..Len(hist)
            /\ hist[calls[c].savedAs] = UncancelledScan(c).st

\* A cancelled error report whose scan refreshed the token of the account it
\* switched to.
C17_Witness ==
    \E c \in Callers :
        /\ ScannedAfterCancel(c)
        /\ calls[c].out.switched
        /\ hist[calls[c].savedAs].active = calls[c].out.to
        /\ hist[calls[c].savedAs].accounts[calls[c].out.to].lastRefreshAt = calls[c].at
        /\ calls[c].loaded.accounts[calls[c].out.to].lastRefreshAt # calls[c].at

\* What ensureFreshToken and the quota fetcher answer for account id in the
\* last sync, taken on the registry and the secrets the sync began with.
SyncRefresh(id) ==
    ensureFreshToken(id, pre.state.accounts[id], pre.secrets, ret.env[id], ret.at)

SyncFetch(id) ==
    FetchCodexSnapshot(IF SecretHas(SyncRefresh(id).store, id)
                       THEN SyncRefresh(id).store[id].accessToken ELSE "",
                       ret.resps[id], ret.at)

\* The last call was the sync of one account that got as far as the token.
SyncedOne == ret.op = "SyncQuota" /\ ret.valid

\* C18: in the quota sync of one account, a failed token refresh leaves the
\* account stored as need_reauth, is returned as the error, and the quota
\* fetcher is not called; with a fresh token and a failing fetcher the
\* fetcher's error is returned and the account's status and stored quota
\* windows are as before.
C18_SyncFailures ==
    SyncedOne =>
        /\ SyncRefresh(ret.id).err # "" =>
              /\ state.accounts[ret.id].status = "need_reauth"
              /\ ret.err = SyncRefresh(ret.id).err
              /\ ret.fetches = 0
        /\ (SyncRefresh(ret.id).err = "" /\ SyncFetch(ret.id).err # "") =>
              /\ ret.err = SyncFetch(ret.id).err
              /\ ret.fetches = 1
              /\ state.accounts[ret.id].status = pre.state.accounts[ret.id].status
              /\ state.accounts[ret.id].quota = pre.state.accounts[ret.id].quota

\* A sync of a ready account whose token refresh failed.
C18_Witness ==
    /\ SyncedOne
    /\ pre.state.accounts[ret.id].status = "ready"
    /\ SyncRefresh(ret.id).err # ""
    /\ state.accounts[ret.id].status = "need_reauth"
    /\ ret.err # ""

\* A sync with a fresh token whose fetcher failed.
C18_WitnessFetcher ==
    /\ SyncedOne
    /\ SyncRefresh(ret.id).err = ""
    /\ SyncFetch(ret.id).err # ""
    /\ ret.err = SyncFetch(ret.id).err

\* Whether the sync of account id alone succeeds in the last sync of all.
SyncSucceeds(id) ==
    /\ NormalizeProvider(pre.state.accounts[id].provider) = "codex"
    /\ SyncRefresh(id).err = ""
    /\ SyncFetch(id).err = ""

\* C19: a sync of all accounts returns success with exactly one result entry
\* per account of the registry, total being the number of entries and the sum
\* of succeeded and failed; an account's failure is recorded in its entry and
\* every other account is synced all the same.
C19_SyncAllReportsEveryAccount ==
    ret.op = "SyncAll" =>
        /\ ret.err = ""
        /\ Len(ret.results) = Cardinality(DOMAIN pre.state.accounts)
        /\ \A id \in DOMAIN pre.state.accounts :
              \E i \in 1..Len(ret.results) :
                  /\ ret.results[i].accountID = id
                  /\ ret.results[i].success <=> SyncSucceeds(id)
                  /\ ret.results[i].success <=> ret.results[i].err = ""
                  /\ SyncSucceeds(id) =>
                        state.accounts[id].quota =
                            mergeQuotaSnapshot(pre.state.accounts[id].quota,
                                               SyncFetch(id), ret.at)
        /\ ret.total = Len(ret.results)
        /\ ret.total = ret.succeeded + ret.failedCount
        /\ ret.succeeded = Cardinality({id \in DOMAIN pre.state.accounts : SyncSucceeds(id)})

\* A sync of all accounts in which an account failed and a later one was
\* synced.
C19_Witness ==
    /\ ret.op = "SyncAll"
    /\ \E i \in 1..Len(ret.results), j \in 1..Len(ret.results) :
          /\ i < j
          /\ ~ret.results[i].success
          /\ ret.results[j].success
          /\ state.accounts[ret.results[j].accountID].quota.lastUpdated = ret.at
          /\ state.accounts[ret.results[j].accountID].quota
                # pre.state.accounts[ret.results[j].accountID].quota

\* C20: in every reachable registry every account's session and weekly
\* used_percent is an integer from 0 to 100, after UpdateQuota with any
\* request body as after a quota sync.
C20_UsedPercentInRange ==
    \A id \in DOMAIN state.accounts :
        /\ state.accounts[id].quota.session \in 0..100
        /\ state.accounts[id].quota.weekly \in 0..100

\* C21: a Status call on a pending session whose expires-at has passed
\* returns status expired with error "oauth session expired", and once a
\* Status call has returned expired for a state every later Status call for
\* it returns expired, whatever callbacks are in flight or arrive.
C21_ExpiredIsFinal ==
    [][ /\ (polled'.count > polled.count /\ polled'.err = "")
            => /\ polled'.snapshot.status = "pending"
                    => ~sessionExpired(polled'.snapshot, now)
               /\ polled'.snapshot.status = "expired"
                    => polled'.snapshot.error = "oauth session expired"
        /\ \A n \in Nonces :
              polled.seen[n] = "expired" => polled'.seen[n] = "expired" ]_vars

\* The callback c has run completeSession.
Completed(c) == callbacks[c].pc = "done" /\ callbacks[c].ok

\* C22: HandleCallback never moves a session to success once the session's
\* expires-at has passed or the session was marked expired, also when the
\* callback passed its first expiry check before the expiry.
C22_NoSuccessAfterExpiry ==
    \A c \in Callers :
        Completed(c) =>
            /\ ~sessionExpired(callbacks[c].found, callbacks[c].finishedAt)
            /\ callbacks[c].found.status # "expired"

\* C23: a session is success with account id X only if a callback for it
\* got X added by AddAccount without error, X then being in the registry
\* with a secret record; a callback whose AddAccount failed with a
\* persist-secrets or persist-state error sets the session to error with
\* the message of that failure and does not complete it.
C23_SuccessMeansAdded ==
    /\ \A n \in DOMAIN sessions :
          sessions[n].status = "success" =>
              \E c \in Callers :
                  /\ Completed(c)
                  /\ callbacks[c].state = n
                  /\ callbacks[c].added /\ callbacks[c].addErr = ""
                  /\ callbacks[c].account = sessions[n].accountID
                  /\ callbacks[c].stored
    /\ \A c \in Callers :
          (callbacks[c].pc \in {"fail", "done"} /\ callbacks[c].addErr # "") =>
              /\ callbacks[c].addErr \in {"ErrPersistSecrets", "ErrPersistState"}
              /\ ~callbacks[c].added /\ ~callbacks[c].ok
              /\ callbacks[c].msg =
                    (IF callbacks[c].addErr = "ErrPersistSecrets"
                     THEN "failed to store OAuth credentials locally"
                     ELSE "failed to persist account metadata locally")
              /\ callbacks[c].pc = "done" =>
                    /\ callbacks[c].page = callbacks[c].msg
                    /\ callbacks[c].wrote.status = "error"
                    /\ callbacks[c].wrote.error = callbacks[c].msg

C23_Witness ==
    \E c \in Callers, d \in Callers :
        /\ Completed(c)
        /\ sessions[callbacks[c].state].status = "success"
        /\ HasAccount(state, sessions[callbacks[c].state].accountID)
        /\ callbacks[d].pc = "done"
        /\ callbacks[d].addErr # ""
        /\ callbacks[d].wrote.status = "error"


\* The last import request carried a usable candidate: a POST with a body
\* that decodes and a codex auth file that yields a valid local account.
ImportHadCandidate == http.candidate # ""

\* C24: an import with overwrite_existing=false of a candidate the registry
\* holds answers 409 without calling AddAccount and leaves the registry and
\* the stored secrets as they were; every other import of a candidate calls
\* AddAccount once with it and, when it answers 200, reports action updated
\* if the registry held the id before the call and created if it did not.
C24_ImportConflictOrAdd ==
    ImportHadCandidate =>
        IF HasAccount(pre.state, http.candidate) /\ http.body = "false"
        THEN /\ http.status = 409
             /\ http.adds = 0
             /\ state = pre.state
             /\ secretStore = pre.secrets
        ELSE /\ http.adds = 1
             /\ http.status \in {200, 400}
             /\ http.status = 200 <=> http.addErr = ""
             /\ http.status = 200 =>
                    /\ http.action = (IF HasAccount(pre.state, http.candidate)
                                      THEN "updated" ELSE "created")
                    /\ HasAccount(state, http.candidate)
                    /\ SecretHas(secretStore, http.candidate)
                    /\ secretStore[http.candidate].accessToken = "at3"
             /\ http.status = 400 => http.action = ""

C24_Witness ==
    /\ http.status = 409
    /\ http.body = "false"
    /\ HasAccount(state, http.candidate)

C24_WitnessUpdated ==
    /\ http.status = 200
    /\ http.action = "updated"
    /\ http.body = "true"

\* No call of the controller is under way.
DaemonQuiet == \A c \in Callers : daemon.calls[c].pc = "idle"

\* Some call, returned or under way, has called Shutdown.
ShutdownCalled ==
    daemon.shutdowns > 0 \/ \E c \in Callers : daemon.calls[c].entered

\* C25: every call of Shutdown, made directly or by Restart, returns
\* success; once a call has entered Shutdown the shutting-down flag is set,
\* and it is never cleared; the delayed stop of the HTTP servers is never
\* started twice, and it has been started once when the calls have
\* returned, each server being told to stop once at most.
C25_ShutdownIdempotent ==
    [][ /\ daemon.shuttingDown => daemon'.shuttingDown
        /\ daemon'.goroutines <= 1
        /\ \A srv \in DOMAIN daemon'.stopCalls : daemon'.stopCalls[srv] <= 1
        /\ \A c \in Callers :
              LET call == daemon'.calls[c] IN
              /\ (call.entered /\ call.pc # "enter") => daemon'.shuttingDown
              /\ (call.entered /\ call.returned) => call.err = ""
        /\ daemon'.shutdowns > 0 => daemon'.shuttingDown
        /\ (\A c \in Callers : daemon'.calls[c].pc = "idle") /\ daemon'.shutdowns > 0
              => daemon'.goroutines = 1 ]_vars

C25_Witness ==
    /\ DaemonQuiet
    /\ daemon.shutdowns = 3
    /\ \E c \in Callers : daemon.calls[c].op = "Restart" /\ daemon.calls[c].entered
    /\ daemon.stopCalls["api"] = 1

\* The command line a Restart call is to start: the one provided or, when
\* none is provided, the controller's default; "" when there is neither.
\* A default exists when --restart-cmd was given or the executable is known
\* and is no temporary build.
RestartTarget(call) ==
    IF ~IsBlank(call.startCmd) THEN TrimSpace(call.startCmd)
    ELSE IF ~IsBlank(daemon.restartCmd) THEN TrimSpace(daemon.restartCmd)
    ELSE IF daemon.exe.err \/ daemon.exe.goRun THEN ""
    ELSE SelfCommand

\* C26: Restart starts the replacement from the provided command or, when
\* none is provided, from the default one, and calls Shutdown only after
\* that start succeeded; without any command, or when the start fails, it
\* returns an error without having called Shutdown; the daemon shuts down
\* only through a call of Shutdown.
C26_RestartSpawnsThenShutsDown ==
    /\ \A c \in Callers :
          LET call == daemon.calls[c] IN
          call.op = "Restart" =>
              /\ call.entered => (call.spawned /\ call.cmd = RestartTarget(call))
              /\ call.spawned => (call.cmd = RestartTarget(call) /\ call.cmd # "")
              /\ call.returned =>
                    IF RestartTarget(call) = ""
                    THEN /\ call.err = "restart command is empty"
                         /\ ~call.spawned /\ ~call.entered
                    ELSE IF ~call.spawned
                    THEN /\ call.err = "failed to start replacement daemon"
                         /\ ~call.entered
                    ELSE call.err = "" /\ call.entered
    /\ (daemon.shuttingDown \/ daemon.goroutines > 0) => ShutdownCalled

C26_Witness ==
    \E c \in Callers, d \in Callers :
        /\ daemon.calls[c].op = "Restart" /\ daemon.calls[c].returned
        /\ daemon.calls[c].startCmd = "" /\ daemon.calls[c].cmd = "run.sh"
        /\ daemon.calls[c].entered
        /\ daemon.calls[d].op = "Restart" /\ daemon.calls[d].returned
        /\ daemon.calls[d].err = "failed to start replacement daemon"

C26_WitnessNoCommand ==
    /\ \E c \in Callers : /\ daemon.calls[c].op = "Restart"
                           /\ daemon.calls[c].err = "restart command is empty"
    /\ daemon.exe.goRun
    /\ ~daemon.shuttingDown

\* C27: for the secret store, Get(id) after a successful Put(id, s) returns
\* s; Delete of an id that has no record succeeds and changes nothing; and
\* Get(id) after Delete(id) fails.
C27_PutGetDelete ==
    LET last == fileStore.last
    IN /\ (last.op = "Get" /\ last.held = "put")
            => (last.err = "" /\ last.out = last.secrets)
       /\ (last.op = "Delete" /\ last.held \in {"none", "deleted"})
            => (last.err = "" /\ fileStore.files = last.before)
       /\ (last.op = "Get" /\ last.held = "deleted") => last.err # ""

\* C28: an account whose status is disabled never leaves that status
\* automatically: in every step other than a re-add by AddAccount it stays in
\* the registry with status disabled, it is not made the active account,
\* HandleQuotaError leaves its secret alone, and a SetActiveAccount naming it
\* returns an error.
DisabledStays(id) ==
    /\ id \in DOMAIN state'.accounts
    /\ state'.accounts[id].status = "disabled"
    /\ state'.active = id => state.active = id
    /\ (ret'.op = "HandleQuotaError" /\ id \in DOMAIN secretStore)
         => (id \in DOMAIN secretStore' /\ secretStore'[id] = secretStore[id])
    /\ (ret'.op = "SetActiveAccount" /\ ret'.id = id /\ nops' # nops) => ret'.err # ""

SetActiveSucceeded(r, id) == r.op = "SetActiveAccount" /\ r.id = id /\ r.err = ""

C29_SetActiveTwice ==
    [][\A id \in AccountIDs :
          (SetActiveSucceeded(ret, id) /\ SetActiveSucceeded(ret', id) /\ nops' = nops + 1)
              => /\ ret.applied = <<id>>
                 /\ ret'.applied = <<id>>
                 /\ state' = state]_vars

\* C30: shouldSwitch(status, message) is true exactly when status is 429,
\* 500 or 503 or the lower-cased message contains one of the twelve known
\* patterns; for every other pair it is false.
C30_ShouldSwitchExact ==
    probe.done =>
        (probe.result <=> (probe.statusCode \in {429, 500, 503} \/ probe.hit))

\* A pattern in upper case under a status that is not 429, 500 or 503, and a
\* pattern short of its last character under such a status.
C30_Witness ==
    /\ probe.done /\ probe.shape = "upper" /\ probe.statusCode = 200
    /\ probe.message # ToLower(probe.message)
    /\ probe.result

C30_WitnessFalse ==
    probe.done /\ probe.shape = "cut" /\ probe.statusCode = 502 /\ ~probe.result

\* C31: orderedCandidates returns every account id of the registry except
\* the active one, each exactly once; under fill-first sorted by ascending
\* session used-percent plus weekly used-percent with ties broken by
\* ascending id; under round-robin sorted by ascending id.
UsedSum(st, id) == st.accounts[id].quota.session + st.accounts[id].quota.weekly

IdBefore(a, b) ==
    \E i, j \in 1..Len(IdOrder) : i < j /\ IdOrder[i] = a /\ IdOrder[j] = b

C31_OrderedCandidates ==
    probe.done =>
        LET out == probe.out
            st == probe.st
        IN /\ {out[i] : i \in 1..Len(out)} = (DOMAIN st.accounts) \ {probe.activeID}
           /\ \A i, j \in 1..Len(out) : i < j =>
                 /\ out[i] # out[j]
                 /\ IF st.strategy = "fill-first"
                       THEN \/ UsedSum(st, out[i]) < UsedSum(st, out[j])
                            \/ /\ UsedSum(st, out[i]) = UsedSum(st, out[j])
                               /\ IdBefore(out[i], out[j])
                       ELSE IdBefore(out[i], out[j])

\* Under fill-first, three candidates of which the first in id order has the
\* largest sum and the other two are tied.
C31_Witness ==
    /\ probe.done /\ probe.st.strategy = "fill-first"
    /\ probe.activeID = "" /\ Len(probe.out) = 3
    /\ probe.out = <<"B", "C", "A">>
    /\ UsedSum(probe.st, "B") = UsedSum(probe.st, "C")
    /\ probe.st.accounts["B"].quota.session > probe.st.accounts["C"].quota.session

C31_WitnessRoundRobin ==
    /\ probe.done /\ probe.st.strategy = "round-robin"
    /\ probe.activeID = "B" /\ probe.out = <<"A", "C">>
    /\ UsedSum(probe.st, "A") > UsedSum(probe.st, "C")

\* C32: merging a fetched snapshot into an account's quota keeps the
\* account's window where the snapshot has none and takes the snapshot's
\* window where it has one; limit_reached is true if and only if the
\* snapshot's limit_reached is true or the merged session or weekly
\* used-percent is at least 100; last_updated is the merge time.
C32_MergeQuota ==
    (probe.done /\ probe.merged) =>
        LET snap == probe.snap
            out == probe.out
        IN /\ out.session = IF snap.session.present THEN snap.session.usedPercent
                                                    ELSE probe.current.session
           /\ out.weekly = IF snap.weekly.present THEN snap.weekly.usedPercent
                                                  ELSE probe.current.weekly
           /\ out.limitReached <=>
                 (snap.limitReached \/ out.session >= 100 \/ out.weekly >= 100)
           /\ out.lastUpdated = now

\* A snapshot with a weekly window only, merged later than it was fetched
\* into a quota whose session window is used and whose limit flag was set.
C32_Witness ==
    /\ probe.done /\ probe.merged /\ now > probe.at
    /\ ~probe.snap.session.present /\ probe.snap.weekly.present
    /\ probe.current.session = 20 /\ probe.out.session = 20
    /\ probe.out.weekly = 2 /\ probe.current.weekly = 35
    /\ probe.current.limitReached /\ ~probe.out.limitReached

\* An empty snapshot leaves both windows; a kept window at 100 sets the flag.
C32_WitnessEmpty ==
    /\ probe.done /\ probe.merged
    /\ ~probe.snap.session.present /\ ~probe.snap.weekly.present
    /\ probe.out.session = 100 /\ probe.out.weekly = 35
    /\ ~probe.snap.limitReached /\ probe.out.limitReached

\* C33: FetchCodexSnapshot maps the upstream windows as follows: a secondary
\* window with zero used-percent and zero reset is discarded when the
\* primary's reset is more than 24h ahead; if a secondary remains, session
\* is the primary and weekly the secondary; otherwise, if the primary's
\* reset is more than 24h ahead, session is absent, weekly is the primary
\* and session_unsupported is true; otherwise session is the primary and
\* weekly is absent; limit_reached is passed through as received.
FarAhead(window, t) == window.present /\ window.resetAt > t + Day

C33_FetchMapsWindows ==
    (probe.done /\ probe.snap.err = "") =>
        LET primary == toWindow(probe.resp.primary)
            received == toWindow(probe.resp.secondary)
            far == FarAhead(primary, probe.at)
            discarded == received.present /\ received.usedPercent = 0
                            /\ received.resetAt = 0 /\ far
            snap == probe.snap
        IN /\ snap.limitReached = probe.resp.limitReached
           /\ IF received.present /\ ~discarded
                 THEN snap.session = primary /\ snap.weekly = received
                 ELSE IF far
                 THEN /\ ~snap.session.present
                      /\ snap.weekly = primary
                      /\ snap.sessionUnsupported
                 ELSE snap.session = primary /\ ~snap.weekly.present

\* A primary that resets more than 24h ahead next to a secondary that was
\* received with a small used-percent and a reset that is not positive.
C33_Witness ==
    /\ probe.done /\ probe.snap.err = ""
    /\ probe.resp.secondary.present /\ probe.resp.secondary.tenths > 0
    /\ probe.resp.secondary.resetsAt < 0
    /\ probe.resp.primary.resetsAt = probe.at + Day + 1
    /\ ~probe.snap.session.present /\ probe.snap.sessionUnsupported
    /\ probe.snap.weekly.usedPercent = 100 /\ probe.snap.limitReached = FALSE

\* A primary that resets exactly 24h ahead, alone: it is the session window.
C33_WitnessNear ==
    /\ probe.done /\ probe.snap.err = ""
    /\ ~probe.resp.secondary.present
    /\ probe.resp.primary.resetsAt = probe.at + Day
    /\ probe.snap.session.present /\ ~probe.snap.weekly.present
    /\ ~probe.snap.sessionUnsupported

\* A zero secondary next to a primary without far reset stays the weekly
\* window.
C33_WitnessKept ==
    /\ probe.done /\ probe.snap.err = ""
    /\ probe.resp.secondary.present /\ probe.resp.secondary.tenths = 0
    /\ probe.resp.secondary.resetsAt = 0
    /\ probe.resp.primary.resetsAt = probe.at + Day
    /\ probe.snap.session.present /\ probe.snap.weekly.present

\* C34: ensureFreshToken treats the token as fresh, with no refresh call and
\* no secret write, when the stored access-expiry is missing or more than
\* 30 seconds in the future; otherwise it fails, in this order of checks,
\* with "refresh token missing", "refresh token expired" (the refresh
\* expiry known and past) and "provider refresh is not implemented" (the
\* provider not codex); only otherwise is the token endpoint called, and on
\* success the new access token and expiry are in the secret store and
\* last_refresh_at is stamped; on any failure the stored secret is unchanged.
C34_EnsureFreshToken ==
    (probe.done /\ probe.env.getOk) =>
        LET s == probe.secret
            out == probe.out
            fresh == s.accessExpiresAt = 0 \/ s.accessExpiresAt > probe.at + 30
            missing == s.refreshToken \in {"", " "}
            expired == s.refreshExpiresAt # 0 /\ s.refreshExpiresAt < probe.at
            foreign == probe.provider \notin {"codex", "CODEX"}
            lifetime == IF probe.env.resp.expiresIn > 0 THEN probe.env.resp.expiresIn
                                                        ELSE 3600
        IN /\ fresh => (out.err = "" /\ out.refreshes = 0 /\ out.puts = 0
                            /\ out.store["A"] = s /\ out.acct.lastRefreshAt = 0)
           /\ (~fresh /\ missing) => out.err = "refresh token missing"
           /\ (~fresh /\ ~missing /\ expired) => out.err = "refresh token expired"
           /\ (~fresh /\ ~missing /\ ~expired /\ foreign)
                 => out.err = "provider refresh is not implemented"
           /\ (out.refreshes = 1) <=> (~fresh /\ ~missing /\ ~expired /\ ~foreign)
           /\ (out.refreshes = 1 /\ out.err = "")
                 => /\ out.store["A"].accessToken = probe.env.resp.accessToken
                    /\ out.store["A"].accessExpiresAt = probe.at + lifetime
                    /\ out.store["A"].refreshToken = s.refreshToken
                    /\ out.acct.lastRefreshAt = probe.at
                    /\ out.acct.accessExpiresAt = probe.at + lifetime
           /\ out.err # "" => (out.store["A"] = s /\ out.acct.lastRefreshAt = 0)

\* A token expiring in exactly 30 seconds, with a refresh token whose expiry
\* is now, is refreshed and stored.
C34_Witness ==
    /\ probe.done /\ probe.env.getOk /\ probe.out.err = ""
    /\ probe.secret.accessExpiresAt = probe.at + 30
    /\ probe.secret.refreshExpiresAt = probe.at
    /\ probe.out.refreshes = 1 /\ probe.out.puts = 1
    /\ probe.out.store["A"].accessToken = "at2"
    /\ probe.out.store["A"].accessExpiresAt = probe.at + 120

\* A stale token with no refresh token, an expired refresh expiry and a
\* provider that is not codex: the first check answers.
C34_WitnessOrder ==
    /\ probe.done /\ probe.env.getOk
    /\ probe.secret.accessExpiresAt = probe.at - 1
    /\ probe.secret.refreshToken = " " /\ probe.secret.refreshExpiresAt = probe.at - 1
    /\ probe.provider = "other"
    /\ probe.out.err = "refresh token missing"

\* A refresh whose Put fails.
C34_WitnessPutFails ==
    /\ probe.done /\ ~probe.env.putOk /\ probe.out.puts = 1
    /\ probe.out.err # "" /\ probe.out.store["A"] = probe.secret

\* C35: an OAuth session's status only moves from pending to one of
\* success, error or expired; once it is success, error or expired, no
\* later Status call and no later callback for the same state changes its
\* status, account id or error.
C35_SingleShotTransitions ==
    [][\A n \in DOMAIN sessions :
          /\ n \in DOMAIN sessions'
          /\ sessions'[n].status \in {"pending", "success", "error", "expired"}
          /\ sessions[n].status # "pending"
                => /\ sessions'[n].status = sessions[n].status
                   /\ sessions'[n].accountID = sessions[n].accountID
                   /\ sessions'[n].error = sessions[n].error]_vars

\* The candidates a switching HandleQuotaError looked at: those of the order
\* up to the one it switched to, the disabled ones left out.
TriedUpTo(st, from, to) ==
    LET order == orderedCandidates(st, from)
        k == CHOOSE i \in 1..Len(order) : order[i] = to
    IN { order[i] : i \in { j \in 1..k : st.accounts[order[j]].status # "disabled" } }

\* C36: a successful switch by HandleQuotaError changes only the chosen
\* candidate's record, the records of the candidates tried before it and the
\* active-account id: the previously active account stays in the registry
\* with its record and its stored secret unchanged, and the routing strategy
\* is unchanged.
C36_SwitchFrame ==
    (ret.op = "HandleQuotaError" /\ ret.switched) =>
        LET before == pre.state
            tried == TriedUpTo(before, ret.from, ret.to)
        IN /\ state.strategy = before.strategy
           /\ DOMAIN state.accounts = DOMAIN before.accounts
           /\ state.active = ret.to
           /\ \A id \in (DOMAIN before.accounts) \ tried :
                 /\ state.accounts[id] = before.accounts[id]
                 /\ SecretHas(secretStore, id) = SecretHas(pre.secrets, id)
                 /\ SecretHas(secretStore, id) => secretStore[id] = pre.secrets[id]
           /\ ret.from \in DOMAIN before.accounts
           /\ ret.from \notin tried

\* A switch that passed over a candidate it marked need_reauth, away from an
\* active account that has a stored secret and a third account untouched.
C36_Witness ==
    /\ ret.op = "HandleQuotaError" /\ ret.switched
    /\ SecretHas(pre.secrets, ret.from)
    /\ Cardinality(TriedUpTo(pre.state, ret.from, ret.to)) >= 2
    /\ \E id \in TriedUpTo(pre.state, ret.from, ret.to) :
          id # ret.to /\ state.accounts[id] # pre.state.accounts[id]

\* The registry a mutating call leaves when it runs alone on registry st,
\* with the secrets and at the time it met.
RunAlone(call, st) ==
    IF call.op = "SetStrategy" THEN [st EXCEPT !.strategy = call.arg]
    ELSE IF call.op = "HandleQuotaError"
    THEN Scan(orderedCandidates(st, st.active), 1, st, call.secrets,
              [id \in (DOMAIN st.accounts) \ {st.active} |-> EnvOk], call.at).st
    ELSE Mutation(call.op, call.arg, st, call.secrets, call.at).next

\* The calls that have returned after saving the registry.
Saved == { c \in Callers : calls[c].pc = "done" /\ calls[c].saves }

\* C37: concurrent mutating Manager operations hold the Manager mutex over
\* their whole Load-modify-Save sequence: the registry is the result of
\* running the operations that saved one after another, in the order of
\* their saves, each on the registry the one before it left, so no
\* operation's update is lost.
C37_MutatorsSerialised ==
    /\ state = hist[Len(hist)]
    /\ Len(hist) = 1 + Cardinality(Saved)
    /\ \A c \in Saved :
          /\ calls[c].savedAs \in 2..Len(hist)
          /\ calls[c].loaded = hist[calls[c].savedAs - 1]
          /\ hist[calls[c].savedAs] = RunAlone(calls[c], hist[calls[c].savedAs - 1])
    /\ \A c, d \in Saved : c # d => calls[c].savedAs # calls[d].savedAs
    /\ Cardinality({ c \in Callers : calls[c].pc \in {"loaded", "decided"} }) <= 1

\* An UpdateQuota and a SetStrategy requested before either had saved, both
\* returned, and the registry holds both updates.
C37_Witness ==
    /\ Saved = Callers
    /\ calls["h1"].op = "UpdateQuota" /\ calls["h2"].op = "SetStrategy"
    /\ calls["h1"].calledAt = 1 /\ calls["h2"].calledAt = 1
    /\ calls["h1"].savedAs = 3
    /\ state.strategy = "fill-first" /\ pre.state.strategy = "round-robin"
    /\ state.accounts["A"].quota.session = 70

\* A step in which a sync finishes, and one in which the interval timer fires.
SyncFinished == ui.inFlight # "" /\ ui'.inFlight = ""
TimerFired == ui'.last.kind = "timer" /\ ui.clock = ui.nextFire
              /\ ui'.nextFire # ui.nextFire /\ ui'.cadence = ui.cadence

\* What the timer does when it fires: no sync-all while the backoff lasts,
\* and one as soon as it is over and no sync is in flight.
TimerObeysBackoff ==
    TimerFired =>
        /\ ui.clock < ui.backoffUntil => (ui'.inFlight = ui.inFlight /\ ~ui'.last.started)
        /\ (ui.clock >= ui.backoffUntil /\ ui.inFlight = "")
              => (ui'.inFlight = "sync-all" /\ ui'.last.started)

\* C38: in the UI quota auto-refresh, after the n-th consecutive failed sync
\* the timer-driven sync-all is suppressed until min(15, 2^(n-1)) minutes
\* have passed since that failure, so the backoff never exceeds 15 minutes;
\* a sync that succeeds for all accounts resets the failure count and the
\* backoff to zero.  A failed sync is here any sync that did not succeed
\* for all accounts.
C38_BackoffAfterFailedSync ==
    [][/\ (SyncFinished /\ ui'.last.outcome # "ok") =>
             /\ ui'.backoffUntil
                  = ui.clock + Min(BackoffCapMinutes, 2 ^ (ui'.unsuccessful - 1))
             /\ ui'.backoffUntil - ui.clock <= BackoffCapMinutes
       /\ (SyncFinished /\ ui'.last.outcome = "ok") =>
             (ui'.failureCount = 0 /\ ui'.backoffUntil = 0)
       /\ TimerObeysBackoff]_vars

\* C38 as the code has it: a sync counts as failed when its request or the
\* reload of the status after it throws; after the n-th such sync since the
\* last sync that succeeded the timer-driven sync-all is suppressed until
\* min(15, 2^(n-1)) minutes have passed since that failure; a sync-all that
\* answers with failed accounts changes neither the failure count nor the
\* backoff; a sync whose request and reload succeed with no failed account
\* resets both to zero.
C38_BackoffAfterFailedRequest ==
    [][/\ (SyncFinished /\ ui'.last.outcome \in {"threw", "reload-threw"}) =>
             /\ ui'.failureCount = ui.failureCount + 1
             /\ ui'.backoffUntil
                  = ui.clock + Min(BackoffCapMinutes, 2 ^ (ui'.failureCount - 1))
             /\ ui'.backoffUntil - ui.clock <= BackoffCapMinutes
       /\ (SyncFinished /\ ui'.last.outcome = "partial") =>
             /\ ui'.failureCount = ui.failureCount
             /\ ui'.backoffUntil = ui.backoffUntil
       /\ (SyncFinished /\ ui'.last.outcome = "ok") =>
             (ui'.failureCount = 0 /\ ui'.backoffUntil = 0)
       /\ ~SyncFinished =>
             /\ ui'.failureCount = ui.failureCount
             /\ ui'.backoffUntil = ui.backoffUntil
       /\ TimerObeysBackoff]_vars

\* The fifth failed request in a row has just set the backoff to the cap.
C38_Witness ==
    /\ ui.last.outcome = "threw"
    /\ ui.failureCount = 5
    /\ ui.backoffUntil = ui.clock + BackoffCapMinutes

\* The timer fired during the backoff and started nothing.
C38_WitnessSuppressed ==
    /\ ui.last.kind = "timer" /\ ~ui.last.started
    /\ ui.inFlight = ""
    /\ ui.clock < ui.backoffUntil
    /\ ui.failureCount = 2

\* The timer fired at the very end of the backoff and started a sync-all.
C38_WitnessResumed ==
    /\ ui.last.kind = "timer" /\ ui.last.started
    /\ ui.clock = ui.backoffUntil
    /\ ui.failureCount = 2

\* C39: under strategy round-robin with three or more accounts that are all
\* ready and have fresh tokens, repeated switch-worthy HandleQuotaError calls
\* rotate through all accounts: starting from any active account, every
\* account of the registry becomes the active account after finitely many
\* switches.
C39_RoundRobinReachesAll ==
    \A id \in {"A", "B", "C", "D"} :
        <>(id \in DOMAIN state.accounts => state.active = id)

\* The id of the account an import request reads from its auth file.
ImportedID(call) == LoadLocalAccount(call.arg[2], call.at).id

\* C40: the existence check and the AddAccount of the local import are
\* atomic with respect to other requests: an import with
\* overwrite_existing=false never replaces the account record or the secrets
\* of an account that a concurrent request added under the same id.
C40_ImportNeverReplaces ==
    \A c \in Callers :
        (calls[c].op = "CodexImport" /\ calls[c].pc = "done" /\ calls[c].saves) =>
            (calls[c].arg[1] = "false" =>
                /\ ~HasAccount(hist[calls[c].savedAs - 1], ImportedID(calls[c]))
                /\ ~SecretHas(calls[c].secrets, ImportedID(calls[c])))

====
